---- MODULE Spec2Model ----
(***************************************************************************)
(* Firmware catalog of the OTA server (server/core/firmware_manager.py)   *)
(* and the cipher engine it drives (server/core/crypto.py).                *)
(*                                                                         *)
(* Text (file names, version strings) is a sequence of one-character      *)
(* strings, so that lstrip/split/int and the regular expressions of the   *)
(* source are computed, not assumed.  File content is a plaintext byte    *)
(* sequence under a stack of cipher layers in the catalog sections, with   *)
(* lengths computed exactly; the byte-level sections compute XOR, AES-CBC, *)
(* CRC-32 and MD5 on the bytes.                                            *)
(***************************************************************************)
EXTENDS Integers, Sequences, FiniteSets, TLC

VARIABLES
    firmwares,      \* FirmwareManager.firmwares : id -> FirmwareInfo
    files,          \* the upload directory: file name -> content
    metadata_file,  \* the sidecar metadata.json: [exists, data]
    now,            \* int(time.time())
    call,           \* the last call made on the catalog
    ret,            \* what that call returned
    fwlist,         \* list(self.firmwares.values()) handed to list_firmwares
    result,         \* what list_firmwares / get_latest_version_firmware returned
    pc,             \* per thread: position inside a handler
    loc             \* per thread: the handler's local variables

vars == <<firmwares, files, metadata_file, now, call, ret, fwlist, result, pc, loc>>

(***************************************************************************)
(* Bounds of the model.                                                    *)
(***************************************************************************)
MaxTime == 1          \* the clock runs over 0..MaxTime
MaxRecords == 2       \* add is not called on a catalog with MaxRecords records
MaxLayers == 1        \* cipher layers a file may carry and still be encrypted once more by racing callers
MaxList == 2          \* length of the catalogs handed to list_firmwares

(***************************************************************************)
(* Text helpers.                                                           *)
(***************************************************************************)
Digits == {"0", "1", "2", "3", "4", "5", "6", "7", "8", "9"}

DigitVal(c) ==
    CASE c = "0" -> 0 [] c = "1" -> 1 [] c = "2" -> 2 [] c = "3" -> 3
      [] c = "4" -> 4 [] c = "5" -> 5 [] c = "6" -> 6 [] c = "7" -> 7
      [] c = "8" -> 8 [] c = "9" -> 9

DigitChar(d) == <<"0", "1", "2", "3", "4", "5", "6", "7", "8", "9">>[d + 1]

\* str(n) for n >= 0
RECURSIVE IntToStr(_)
IntToStr(n) == IF n < 10 THEN <<DigitChar(n)>>
               ELSE IntToStr(n \div 10) \o <<DigitChar(n % 10)>>

\* int(s) succeeds on a non-empty run of digits (the alphabet of the model
\* has no sign, blank or underscore)
IntOk(s) == Len(s) > 0 /\ \A i \in 1..Len(s) : s[i] \in Digits

RECURSIVE IntVal(_)
IntVal(s) == IF Len(s) = 0 THEN 0
             ELSE 10 * IntVal(SubSeq(s, 1, Len(s) - 1)) + DigitVal(s[Len(s)])

\* s.lstrip('v')
RECURSIVE LStripV(_)
LStripV(s) == IF Len(s) > 0 /\ s[1] = "v" THEN LStripV(Tail(s)) ELSE s

\* s.split('.')
RECURSIVE SplitFrom(_, _, _)
SplitFrom(s, i, cur) ==
    IF i > Len(s) THEN <<cur>>
    ELSE IF s[i] = "." THEN <<cur>> \o SplitFrom(s, i + 1, <<>>)
    ELSE SplitFrom(s, i + 1, Append(cur, s[i]))

Split(s) == SplitFrom(s, 1, <<>>)

\* '.'.join(parts)
RECURSIVE Join(_)
Join(parts) == IF Len(parts) = 0 THEN <<>>
               ELSE IF Len(parts) = 1 THEN parts[1]
               ELSE parts[1] \o <<".">> \o Join(Tail(parts))

\* tuple comparison of Python: lexicographic, a proper prefix is smaller
RECURSIVE TupleLess(_, _)
TupleLess(a, b) ==
    IF Len(a) = 0 THEN Len(b) > 0
    ELSE IF Len(b) = 0 THEN FALSE
    ELSE IF a[1] # b[1] THEN a[1] < b[1]
    ELSE TupleLess(Tail(a), Tail(b))

(***************************************************************************)
(* Version strings.                                                        *)
(***************************************************************************)
\* the end (exclusive) of the longest run of digits of s that starts at j
RECURSIVE DigitRunEnd(_, _)
DigitRunEnd(s, j) == IF j <= Len(s) /\ s[j] \in Digits THEN DigitRunEnd(s, j + 1) ELSE j

\* \d+(\.\d+){k-1} matched at j: the end (exclusive) of the match, 0 if none.
\* \d+ is greedy and a shorter run is followed by a digit, never by a dot,
\* so backtracking finds nothing the longest run does not.
RECURSIVE GroupEnd(_, _, _)
GroupEnd(s, j, k) ==
    LET e == DigitRunEnd(s, j) IN
    IF e = j THEN 0
    ELSE IF k = 1 THEN e
    ELSE IF e <= Len(s) /\ s[e] = "." THEN GroupEnd(s, e + 1, k - 1)
    ELSE 0

\* v?(...) matched at i under re.IGNORECASE: <<start, end>> of group 1, <<0, 0>> if none
MatchAt(s, i, k) ==
    IF i <= Len(s) /\ s[i] \in {"v", "V"} /\ GroupEnd(s, i + 1, k) # 0
    THEN <<i + 1, GroupEnd(s, i + 1, k)>>
    ELSE IF GroupEnd(s, i, k) # 0 THEN <<i, GroupEnd(s, i, k)>>
    ELSE <<0, 0>>

\* re.search: the leftmost position with a match
RECURSIVE SearchFrom(_, _, _)
SearchFrom(s, i, k) ==
    IF i > Len(s) THEN <<0, 0>>
    ELSE IF MatchAt(s, i, k) # <<0, 0>> THEN MatchAt(s, i, k)
    ELSE SearchFrom(s, i + 1, k)

\* re.search(r'(\d{8})'): the leftmost 8 digits in a row, <<0, 0>> if none
RECURSIVE SearchDate(_, _)
SearchDate(s, i) ==
    IF i + 7 > Len(s) THEN <<0, 0>>
    ELSE IF \A j \in i..(i + 7) : s[j] \in Digits THEN <<i, i + 8>>
    ELSE SearchDate(s, i + 1)

\* FirmwareManager._normalize_version; t is int(time.time())
RECURSIVE PadParts(_, _)
PadParts(parts, t) ==
    IF Len(parts) >= 4 THEN parts
    ELSE IF Len(parts) = 3 THEN PadParts(Append(parts, IntToStr(t % 10000)), t)
    ELSE PadParts(Append(parts, <<"0">>), t)

_normalize_version(version, t) == Join(SubSeq(PadParts(Split(version), t), 1, 4))

\* a search that takes the 1-part pattern first
FirstPattern_lowest(s, k) == SearchFrom(s, 1, 1)

\* FirmwareManager._extract_version_from_filename
RECURSIVE FirstPattern(_, _)
FirstPattern(s, k) ==
    IF k = 0 THEN <<0, 0>>
    ELSE IF SearchFrom(s, 1, k) # <<0, 0>> THEN SearchFrom(s, 1, k)
    ELSE FirstPattern(s, k - 1)

_extract_version_from_filename(filename, t) ==
    LET m == FirstPattern(filename, 4)
        d == SearchDate(filename, 1) IN
    IF m # <<0, 0>> THEN _normalize_version(SubSeq(filename, m[1], m[2] - 1), t)
    ELSE IF d # <<0, 0>> THEN <<"1", ".", "0", ".", "0", ".">> \o SubSeq(filename, d[1], d[2] - 1)
    ELSE <<"1", ".", "0", ".", "0", ".", "0">>

\* [int(x) for x in version.lstrip('v').split('.')]: does it raise, and its value
PartsOk(version) ==
    LET parts == Split(LStripV(version)) IN \A i \in 1..Len(parts) : IntOk(parts[i])

IntParts(version) ==
    LET parts == Split(LStripV(version)) IN [i \in 1..Len(parts) |-> IntVal(parts[i])]

\* while len(parts) < 4: parts.append(0); parts[:4]
Pad4(parts) == [i \in 1..4 |-> IF i <= Len(parts) THEN parts[i] ELSE 0]

\* version_tuple of FirmwareManager._compare_versions: no padding, no truncation
version_tuple(version) == IF PartsOk(version) THEN IntParts(version) ELSE <<0, 0, 0, 0>>

_compare_versions(version1, version2) ==
    IF TupleLess(version_tuple(version2), version_tuple(version1)) THEN 1
    ELSE IF TupleLess(version_tuple(version1), version_tuple(version2)) THEN -1
    ELSE 0

\* CryptoManager._parse_firmware_version
_parse_firmware_version(version_str) ==
    IF Len(version_str) = 0 THEN <<1, 0, 0, 1>>
    ELSE IF PartsOk(version_str) THEN Pad4(IntParts(version_str))
    ELSE <<1, 0, 0, 1>>


(***************************************************************************)
(* Keys, content and the cipher engine (CryptoManager).                    *)
(* A key is named by its bytes in hex; a key derived from a password is   *)
(* named by the derivation and the password.  Content is plaintext bytes  *)
(* under a stack of cipher layers.                                         *)
(***************************************************************************)
Rep(c, n) == [i \in 1..n |-> c]

NoKey == [kind |-> "none", name |-> <<>>, len |-> 0]            \* key=None
RawKey(hex) == [kind |-> "raw", name |-> hex, len |-> Len(hex) \div 2]
K0 == RawKey(<<>>)                                               \* b''
K16 == RawKey(Rep("a", 32))                                      \* 16 bytes 0xaa

HexChars == Digits \cup {"a", "b", "c", "d", "e", "f", "A", "B", "C", "D", "E", "F"}

NoPassword == <<>>                                               \* None or ''
Pw == <<"p", "w">>

ALG_NONE == "none"
ALG_XOR == "xor"
ALG_AES128 == "aes-128-cbc"
ALG_AES256 == "aes-256-cbc"
EncryptionType == {ALG_NONE, ALG_XOR, ALG_AES128, ALG_AES256}

Min(a, b) == IF a < b THEN a ELSE b

\* a ^ b on non-negative integers
RECURSIVE Xor(_, _)
Xor(a, b) ==
    IF a = 0 THEN b
    ELSE IF b = 0 THEN a
    ELSE 2 * Xor(a \div 2, b \div 2) + ((a + b) % 2)

\* c.encode('utf-8') for the characters of the model; "e_acute" stands for
\* U+00E9, one character of two bytes
Utf8Char(c) ==
    CASE c \in Digits -> <<48 + DigitVal(c)>>
      [] c = "a" -> <<97>> [] c = "b" -> <<98>> [] c = "c" -> <<99>>
      [] c = "d" -> <<100>> [] c = "e" -> <<101>> [] c = "f" -> <<102>>
      [] c = "A" -> <<65>> [] c = "B" -> <<66>> [] c = "C" -> <<67>>
      [] c = "D" -> <<68>> [] c = "E" -> <<69>> [] c = "F" -> <<70>>
      [] c = "g" -> <<103>> [] c = "p" -> <<112>> [] c = "s" -> <<115>>
      [] c = "t" -> <<116>> [] c = "w" -> <<119>> [] c = " " -> <<32>>
      [] c = "e_acute" -> <<195, 169>>

\* password.encode('utf-8')
RECURSIVE Utf8(_)
Utf8(s) == IF Len(s) = 0 THEN <<>> ELSE Utf8Char(s[1]) \o Utf8(Tail(s))

HexVal(c) ==
    CASE c \in Digits -> DigitVal(c)
      [] c \in {"a", "A"} -> 10 [] c \in {"b", "B"} -> 11 [] c \in {"c", "C"} -> 12
      [] c \in {"d", "D"} -> 13 [] c \in {"e", "E"} -> 14 [] c \in {"f", "F"} -> 15

\* bytes.fromhex(s): blanks between the pairs are skipped, anything else
\* that is not a pair of hex digits raises ValueError (ok = FALSE)
RECURSIVE fromhex(_)
fromhex(s) ==
    IF Len(s) = 0 THEN [ok |-> TRUE, bytes |-> <<>>]
    ELSE IF s[1] = " " THEN fromhex(Tail(s))
    ELSE IF Len(s) >= 2 /\ s[1] \in HexChars /\ s[2] \in HexChars
         THEN LET rest == fromhex(SubSeq(s, 3, Len(s))) IN
              [ok |-> rest.ok,
               bytes |-> <<16 * HexVal(s[1]) + HexVal(s[2])>> \o rest.bytes]
    ELSE [ok |-> FALSE, bytes |-> <<>>]

\* a bypass that looks at the length only
HexBypass_length_only(password) == Len(password) = 32 /\ fromhex(password).ok

\* the branch of lines 287-294: the password is a raw key in hex
HexBypass(password) ==
    /\ Len(password) = 32
    /\ fromhex(password).ok
    /\ Len(fromhex(password).bytes) = 16

\* salt = [0x05D8FF35, 0x3132564E], each word little-endian
SaltBytes == <<53, 255, 216, 5, 78, 86, 50, 49>>

DeriveRounds == 10

\* temp_key before the rounds: the password in bytes 0-23, the salt in 24-31
ScratchOf(password) ==
    LET password_bytes == Utf8(password)
        pwd_len == Min(Len(password_bytes), 24) IN
    [i \in 1..32 |-> IF i <= pwd_len THEN password_bytes[i]
                     ELSE IF i <= 24 THEN 0
                     ELSE SaltBytes[i - 24]]

\* one round: the key of the round, written to both halves of temp_key
RoundKey(temp_key, round_num) ==
    [i \in 1..16 |->
        Xor(Xor(Xor(temp_key[i], temp_key[i + 16]), round_num % 256),
            ((i - 1) + round_num) % 256)]

\* a round that rewrites only the lower half of temp_key
RECURSIVE DeriveFrom_lower_half(_, _)
DeriveFrom_lower_half(temp_key, round_num) ==
    LET key == RoundKey(temp_key, round_num) IN
    IF round_num = DeriveRounds - 1 THEN key
    ELSE DeriveFrom_lower_half(key \o SubSeq(temp_key, 17, 32), round_num + 1)

RECURSIVE DeriveFrom(_, _)
DeriveFrom(temp_key, round_num) ==
    LET key == RoundKey(temp_key, round_num) IN
    IF round_num = DeriveRounds - 1 THEN key
    ELSE DeriveFrom(key \o key, round_num + 1)

\* CryptoManager._derive_aes_key_stm32_compatible: the 16 bytes returned
derive_key_bytes(password) ==
    IF HexBypass(password) THEN fromhex(password).bytes
    ELSE DeriveFrom(ScratchOf(password), 0)

\* bytes.hex()
HexDigit(d) == <<"0", "1", "2", "3", "4", "5", "6", "7", "8", "9", "a", "b", "c", "d", "e", "f">>[d + 1]

RECURSIVE hex(_)
hex(b) ==
    IF Len(b) = 0 THEN <<>>
    ELSE <<HexDigit(b[1] \div 16), HexDigit(b[1] % 16)>> \o hex(Tail(b))

\* CryptoManager._derive_aes_key_stm32_compatible as a key of the catalog
\* model: the 16 bytes it returns, named in hex
_derive_aes_key_stm32_compatible(password) == RawKey(hex(derive_key_bytes(password)))

\* CryptoManager.generate_key; rnd names the bytes os.urandom returns
generate_key(algorithm, password, rnd) ==
    CASE algorithm = ALG_NONE -> K0
      [] algorithm = ALG_XOR ->
            IF Len(password) > 0
            THEN [kind |-> "utf8", name |-> password, len |-> Min(Len(password), 32)]
            ELSE [kind |-> "random", name |-> rnd, len |-> 16]
      [] algorithm = ALG_AES128 ->
            IF Len(password) > 0
            THEN _derive_aes_key_stm32_compatible(password)
            ELSE [kind |-> "random", name |-> rnd, len |-> 16]
      [] algorithm = ALG_AES256 ->
            IF Len(password) > 0
            THEN [kind |-> "pbkdf2", name |-> password, len |-> 32]
            ELSE [kind |-> "random", name |-> rnd, len |-> 32]

Plain(bytes) == [data |-> bytes, layers |-> <<>>]

NoVer == <<0, 0, 0, 0>>
NoIv == ""

\* len(content)
RECURSIVE LenUnder(_, _, _)
LenUnder(n, layers, i) ==
    IF i > Len(layers) THEN n
    ELSE LET padded == n - (n % 16) + 16 IN
         LenUnder(CASE layers[i].alg = ALG_XOR -> n
                    [] layers[i].alg = ALG_AES256 -> padded
                    [] layers[i].alg = ALG_AES128 -> 64 + padded,
                  layers, i + 1)

ContentLen(c) == LenUnder(Len(c.data), c.layers, 1)

Wrap(c, alg, key, iv, ver) ==
    [c EXCEPT !.layers = Append(@, [alg |-> alg, key |-> key, iv |-> iv, ver |-> ver])]

\* CryptoManager._xor_encrypt
_xor_encrypt(data, key) == IF key.len = 0 THEN data ELSE Wrap(data, ALG_XOR, key, NoIv, NoVer)

\* algorithms.AES(key) accepts 128, 192 and 256 bit keys
AesKeyOk(key) == key.len \in {16, 24, 32}

\* struct.pack('<HHHH', ...) accepts 0..65535
PackOk(ver) == \A i \in 1..4 : ver[i] >= 0 /\ ver[i] <= 65535

\* dict.update
Update(a, b) == [k \in (DOMAIN a) \cup (DOMAIN b) |-> IF k \in DOMAIN b THEN b[k] ELSE a[k]]

EmptyDict == <<>>

\* CryptoManager.encrypt_firmware: [ok, out, meta]; ok = FALSE when it raises
crypto_encrypt_firmware(data, algorithm, key, password, firmware_version, iv, rnd) ==
    LET k == IF key = NoKey THEN generate_key(algorithm, password, rnd) ELSE key
        ver == _parse_firmware_version(firmware_version)
        fail == [ok |-> FALSE, out |-> data, meta |-> EmptyDict] IN
    CASE algorithm = ALG_NONE ->
            [ok |-> TRUE, out |-> data, meta |-> [algorithm |-> ALG_NONE]]
      [] algorithm = ALG_XOR ->
            [ok |-> TRUE, out |-> _xor_encrypt(data, k),
             meta |-> [algorithm |-> ALG_XOR, key_length |-> k.len]]
      [] algorithm = ALG_AES128 ->
            IF ~AesKeyOk(k) \/ ~PackOk(ver) THEN fail
            ELSE [ok |-> TRUE, out |-> Wrap(data, ALG_AES128, k, iv, ver),
                  meta |-> [algorithm |-> ALG_AES128, key_length |-> k.len, iv |-> iv,
                            block_size |-> 16, firmware_size |-> ContentLen(data),
                            encrypted_size |-> ContentLen(data) - (ContentLen(data) % 16) + 16,
                            header_size |-> 64]]
      [] algorithm = ALG_AES256 ->
            IF ~AesKeyOk(k) THEN fail
            ELSE [ok |-> TRUE, out |-> Wrap(data, ALG_AES256, k, iv, NoVer),
                  meta |-> [algorithm |-> ALG_AES256, key_length |-> k.len, iv |-> iv,
                            block_size |-> 16]]

\* CryptoManager.calculate_checksum (md5), collision free
calculate_checksum(content) == <<"md5", content>>


(***************************************************************************)
(* The catalog (FirmwareManager).                                          *)
(***************************************************************************)
\* names of the files callers store in the upload directory
FA == <<"a", ".", "b", "i", "n">>
FB == <<"b", ".", "b", "i", "n">>
FileNames == {FA, FB}

\* original file names callers pass to add
OrigA == <<"m", "_", "v", "1", ".", "2", ".", "b", "i", "n">>
OrigNames == {OrigA}

\* explicit versions callers pass to add; <<>> is version=None
NoVersion == <<>>
VBig == <<"1", ".", "0", ".", "0", ".", "7", "0", "0", "0", "0">>
VAuto == <<"a", "u", "t", "o">>     \* what the upload API passes on unvalidated
AddVersions == {NoVersion, VBig, VAuto}

\* bytes callers store
PlainData == {<<7>>}

\* what os.urandom returns: the IV, the key
IVs == {"iv1"}
Rnd == <<"r", "1">>

\* <<algorithm, password, key>> of the encrypt calls: every algorithm; a
\* password, a raw key, the key of no bytes (which no AES accepts), neither
EncArgs == {<<ALG_XOR, Pw, NoKey>>, <<ALG_AES128, NoPassword, K16>>,
            <<ALG_AES256, NoPassword, K0>>, <<ALG_NONE, NoPassword, NoKey>>,
            <<ALG_XOR, NoPassword, K0>>}

DefaultDevice == "STM32F103ZET6"

\* Path.stem: the name without its last suffix
RECURSIVE LastDot(_, _)
LastDot(s, i) == IF i = 0 THEN 0 ELSE IF s[i] = "." THEN i ELSE LastDot(s, i - 1)

Stem(name) == IF LastDot(name, Len(name)) <= 1 THEN name
              ELSE SubSeq(name, 1, LastDot(name, Len(name)) - 1)

\* f"fw_{int(time.time())}_{file_path.stem}"
FirmwareId(t, path) == <<t, Stem(path)>>

Ids == {FirmwareId(t, n) : t \in 0..MaxTime, n \in FileNames}
NoId == <<-1, <<>>>>

\* FirmwareInfo(...) with the defaults of the dataclass
FirmwareInfo(id, filename, original_filename, version, size, checksum, upload_time, target_device, metadata) ==
    [id |-> id, filename |-> filename, original_filename |-> original_filename,
     version |-> version, size |-> size, checksum |-> checksum,
     upload_time |-> upload_time, target_device |-> target_device,
     is_encrypted |-> FALSE, encryption_algorithm |-> ALG_NONE,
     encryption_metadata |-> EmptyDict, metadata |-> metadata]

FieldNames == {"id", "filename", "original_filename", "version", "size", "checksum",
               "upload_time", "target_device", "is_encrypted", "encryption_algorithm",
               "encryption_metadata", "metadata"}

\* FirmwareInfo.to_dict and json.dump: every field becomes a JSON value
JsonKind(field) ==
    CASE field \in {"size"} -> "number"
      [] field \in {"is_encrypted"} -> "bool"
      [] field \in {"encryption_metadata", "metadata"} -> "object"
      [] OTHER -> "string"

\* a to_dict that leaves the encryption metadata out
to_dict_without_encryption_metadata(fw) ==
    [f \in FieldNames |->
        [kind |-> JsonKind(f),
         value |-> IF f = "encryption_metadata" THEN EmptyDict ELSE fw[f]]]

to_dict(fw) == [f \in FieldNames |-> [kind |-> JsonKind(f), value |-> fw[f]]]

\* FirmwareInfo.from_dict on what json.load returns
from_dict(obj) == [f \in DOMAIN obj |-> obj[f].value]

NoSidecar == [exists |-> FALSE, data |-> EmptyDict]

\* FirmwareManager._save_metadata: the whole map, rewritten
_save_metadata(fws) == [exists |-> TRUE, data |-> [id \in DOMAIN fws |-> to_dict(fws[id])]]

\* FirmwareManager._create_firmware_from_file at time t (st_ctime read as t)
_create_firmware_from_file(fs, name, t) ==
    [FirmwareInfo(<<t, Stem(name)>>, name, name, _extract_version_from_filename(name, t),
                  ContentLen(fs[name]), calculate_checksum(fs[name]), t,
                  "STM32F103ZET6", EmptyDict)
        EXCEPT !.metadata = [scanned |-> TRUE, scan_time |-> t]]

\* glob('*.bin')
IsBin(name) == Len(name) >= 4 /\ SubSeq(name, Len(name) - 3, Len(name)) = <<".", "b", "i", "n">>

\* FirmwareManager._scan_existing_files: the map it builds.  Two files of
\* one stem get one id; the file visited last stays
_scan_existing_files(fs, t) ==
    LET bins == {n \in DOMAIN fs : IsBin(n)}
        ids == {<<t, Stem(n)>> : n \in bins} IN
    [id \in ids |-> _create_firmware_from_file(fs, CHOOSE n \in bins : <<t, Stem(n)>> = id, t)]

\* FirmwareManager._load_metadata: the map of a catalog constructed at time t
_load_metadata(sidecar, fs, t) ==
    IF sidecar.exists
    THEN [id \in DOMAIN sidecar.data |-> from_dict(sidecar.data[id])]
    ELSE _scan_existing_files(fs, t)

Put(f, k, v) == [x \in (DOMAIN f) \cup {k} |-> IF x = k THEN v ELSE f[x]]
Drop(f, k) == [x \in (DOMAIN f) \ {k} |-> f[x]]

Call(op, id) == [op |-> op, id |-> id]

NoCall == Call("none", NoId)

Threads == {1, 2}
NoLoc == [op |-> "none"]

Idle == /\ pc = [t \in Threads |-> "idle"]
        /\ loc = [t \in Threads |-> NoLoc]

NoList == /\ fwlist = <<>>
          /\ result = <<>>

\* a new FirmwareManager on an empty upload directory
Init ==
    /\ firmwares = EmptyDict
    /\ files = EmptyDict
    /\ metadata_file = NoSidecar
    /\ now = 0
    /\ call = NoCall
    /\ ret = "none"
    /\ Idle
    /\ NoList

\* the clock
Tick ==
    /\ now < MaxTime
    /\ now' = now + 1
    /\ call' = NoCall
    /\ ret' = "none"
    /\ UNCHANGED <<firmwares, files, metadata_file, fwlist, result, pc, loc>>

\* FirmwareManager.add_firmware on a path of the upload directory that holds
\* `content`; the record it builds
NewFirmware(path, content, original_filename, version, target_device, t) ==
    FirmwareInfo(FirmwareId(t, path), path, original_filename,
                 IF Len(version) = 0
                 THEN _extract_version_from_filename(original_filename, t)
                 ELSE version,
                 ContentLen(content), calculate_checksum(content), t, target_device,
                 EmptyDict)

\* add_firmware(path, ...) : the caller has stored `bytes` at a new path, or
\* passes a path that is in the directory already
add_firmware(path, bytes, original_filename, version) ==
    /\ Cardinality(DOMAIN firmwares) < MaxRecords
    /\ \/ path \notin DOMAIN files /\ files' = Put(files, path, Plain(bytes))
       \/ path \in DOMAIN files /\ files' = files
    /\ LET fw == NewFirmware(path, files'[path], original_filename, version,
                             DefaultDevice, now) IN
        /\ firmwares' = Put(firmwares, fw.id, fw)
        /\ metadata_file' = _save_metadata(firmwares')
        /\ call' = Call("add", fw.id)
        /\ ret' = "FirmwareInfo"
    /\ UNCHANGED <<now, fwlist, result, pc, loc>>

\* add_firmware on a path that does not exist: FileNotFoundError
add_firmware_missing(path) ==
    /\ path \notin DOMAIN files
    /\ call' = Call("add", NoId)
    /\ ret' = "raise"
    /\ UNCHANGED <<firmwares, files, metadata_file, now, fwlist, result, pc, loc>>


\* a remove that rewrites the sidecar and reports success whether or not
\* the id is known
remove_firmware_unchecked(firmware_id) ==
    /\ call' = Call("remove", firmware_id)
    /\ files' = IF firmware_id \in DOMAIN firmwares
                THEN Drop(files, firmwares[firmware_id].filename) ELSE files
    /\ firmwares' = Drop(firmwares, firmware_id)
    /\ metadata_file' = _save_metadata(firmwares')
    /\ ret' = "True"
    /\ UNCHANGED <<now, fwlist, result, pc, loc>>

\* FirmwareManager.remove_firmware
remove_firmware(firmware_id) ==
    /\ call' = Call("remove", firmware_id)
    /\ IF firmware_id \notin DOMAIN firmwares
       THEN /\ ret' = "False"
            /\ UNCHANGED <<firmwares, files, metadata_file>>
       ELSE /\ files' = Drop(files, firmwares[firmware_id].filename)
            /\ firmwares' = Drop(firmwares, firmware_id)
            /\ metadata_file' = _save_metadata(firmwares')
            /\ ret' = "True"
    /\ UNCHANGED <<now, fwlist, result, pc, loc>>

\* FirmwareManager.read_firmware_content, and `if not content`
Readable(fws, fs, firmware_id) ==
    /\ firmware_id \in DOMAIN fws
    /\ fws[firmware_id].filename \in DOMAIN fs
    /\ ContentLen(fs[fws[firmware_id].filename]) > 0

\* the record after a successful encryption
Encrypted(fw, algorithm, password, key, enc) ==
    [fw EXCEPT
        !.is_encrypted = TRUE,
        !.encryption_algorithm = algorithm,
        !.encryption_metadata =
            LET merged == Update(@, enc.meta) IN
            IF Len(password) > 0 THEN Put(merged, "password", password)
            ELSE IF key # NoKey /\ key.len > 0 THEN Put(merged, "password", key.name)
            ELSE merged,
        !.size = ContentLen(enc.out),
        !.checksum = calculate_checksum(enc.out)]

\* what a failed open(file_path, 'wb') / f.write leaves in the file: the old
\* bytes when open fails, no bytes when the write fails after the truncation
WriteFailures(old) == {old, Plain(<<>>)}

\* FirmwareManager.encrypt_firmware
encrypt_firmware(firmware_id, algorithm, password, key, iv, wr) ==
    /\ call' = Call("encrypt", firmware_id)
    /\ UNCHANGED <<now, fwlist, result, pc, loc>>
    /\ IF ~Readable(firmwares, files, firmware_id)
       THEN ret' = "False" /\ UNCHANGED <<firmwares, files, metadata_file>>
       ELSE IF firmwares[firmware_id].is_encrypted
       THEN ret' = "True" /\ UNCHANGED <<firmwares, files, metadata_file>>
       ELSE Len(files[firmwares[firmware_id].filename].layers) < MaxLayers /\
            LET fw == firmwares[firmware_id]
                enc == crypto_encrypt_firmware(files[fw.filename], algorithm, key,
                                               password, fw.version, iv, Rnd) IN
            IF ~enc.ok
            THEN ret' = "False" /\ UNCHANGED <<firmwares, files, metadata_file>>
            ELSE \/ /\ wr = "ok"
                    /\ files' = Put(files, fw.filename, enc.out)
                    /\ firmwares' = Put(firmwares, firmware_id,
                                        Encrypted(fw, algorithm, password, key, enc))
                    /\ metadata_file' = _save_metadata(firmwares')
                    /\ ret' = "True"
                 \/ /\ wr = "fail"
                    /\ \E left \in WriteFailures(files[fw.filename]) :
                            files' = Put(files, fw.filename, left)
                    /\ ret' = "False"
                    /\ UNCHANGED <<firmwares, metadata_file>>

Next ==
    \/ Tick
    \/ \E path \in FileNames, bytes \in PlainData, o \in OrigNames, v \in AddVersions :
            add_firmware(path, bytes, o, v)
    \/ \E path \in FileNames : add_firmware_missing(path)
    \/ \E id \in Ids : remove_firmware(id)
    \/ \E id \in Ids, x \in EncArgs, iv \in IVs, wr \in {"ok", "fail"} :
            encrypt_firmware(id, x[1], x[2], x[3], iv, wr)

Spec == Init /\ [][Next]_vars

(***************************************************************************)
(* Claims on the catalog, one call at a time.                              *)
(***************************************************************************)
Untouched ==
    /\ firmwares' = firmwares
    /\ files' = files
    /\ metadata_file' = metadata_file

\* C1: encryptInPlace on a record that is already encrypted returns true and
\* changes neither the record, nor the backing file, nor the sidecar.
C1_EncryptedIsNoOp ==
    [][(/\ call'.op = "encrypt"
        /\ call'.id \in DOMAIN firmwares
        /\ firmwares[call'.id].is_encrypted)
       => (ret' = "True" /\ Untouched)]_vars

\* C2: when encryptInPlace on a record of the catalog returns false, the
\* record, the backing file and the sidecar are as they were before the call.
C2_FailedEncryptLeavesState ==
    [][(/\ call'.op = "encrypt"
        /\ call'.id \in DOMAIN firmwares
        /\ ret' = "False")
       => Untouched]_vars

\* C3: every record's checksum is the MD5 of the current bytes of its backing
\* file and its size is their length.
C3_ChecksumDescribesFile ==
    \A id \in DOMAIN firmwares :
        /\ firmwares[id].filename \in DOMAIN files
        /\ firmwares[id].checksum = calculate_checksum(files[firmwares[id].filename])
        /\ firmwares[id].size = ContentLen(files[firmwares[id].filename])

\* C4: once a record is encrypted it stays encrypted, with the same
\* algorithm, for as long as its id is in the catalog.
C4_EncryptedIsTerminal ==
    [][\A id \in DOMAIN firmwares :
        (firmwares[id].is_encrypted /\ id \in DOMAIN firmwares')
        => (/\ firmwares'[id].is_encrypted
            /\ firmwares'[id].encryption_algorithm = firmwares[id].encryption_algorithm)]_vars

C10_RemoveUnknown ==
    [][(call'.op = "remove" /\ call'.id \notin DOMAIN firmwares)
       => (ret' = "False" /\ Untouched)]_vars

\* C10 witness: a remove of an unknown id has returned, the catalog holds a
\* record and its file
C10_Witness ==
    /\ call.op = "remove"
    /\ ret = "False"
    /\ call.id \notin DOMAIN firmwares
    /\ \E id \in DOMAIN firmwares : firmwares[id].filename \in DOMAIN files

\* C11: remove of an id that is in the catalog returns true, whether or not
\* the file exists; afterwards the id is in neither the map nor the sidecar,
\* its file does not exist, and every other record and every other record's
\* file is as before.
C11_RemoveKnown ==
    [][(call'.op = "remove" /\ call'.id \in DOMAIN firmwares)
       => (/\ ret' = "True"
           /\ call'.id \notin DOMAIN firmwares'
           /\ call'.id \notin DOMAIN metadata_file'.data
           /\ firmwares[call'.id].filename \notin DOMAIN files'
           /\ \A other \in DOMAIN firmwares \ {call'.id} :
                /\ other \in DOMAIN firmwares'
                /\ firmwares'[other] = firmwares[other]
                /\ firmwares[other].filename \in DOMAIN files
                   => (/\ firmwares[other].filename \in DOMAIN files'
                       /\ files'[firmwares[other].filename]
                            = files[firmwares[other].filename]))]_vars

\* C12: no two records of the catalog have the same filename.
C12_FilenameUnique ==
    \A id1, id2 \in DOMAIN firmwares :
        firmwares[id1].filename = firmwares[id2].filename => id1 = id2

\* a version of exactly 4 integer components, optionally preceded by 'v'
FourComponents(version) ==
    LET bare == IF Len(version) > 0 /\ version[1] = "v" THEN Tail(version) ELSE version
        parts == Split(bare) IN
    Len(parts) = 4 /\ \A i \in 1..4 : IntOk(parts[i])

\* C13: every record's version has exactly 4 integer components.
C13_VersionFourComponents ==
    \A id \in DOMAIN firmwares : FourComponents(firmwares[id].version)

\* C21: after a successful encrypt of an unencrypted record, the password
\* entry of encryption_metadata is the password supplied, or, with no
\* password, the hex of the raw key supplied; what the cipher engine returned
\* is merged in, is_encrypted is true and encryption_algorithm is the tag of
\* the algorithm requested.
C21_MetadataAfterEncrypt ==
    [][\A id \in Ids, x \in EncArgs, iv \in IVs :
        (/\ id \in DOMAIN firmwares
         /\ ~firmwares[id].is_encrypted
         /\ encrypt_firmware(id, x[1], x[2], x[3], iv, "ok")
         /\ ret' = "True")
        => LET fw == firmwares'[id]
               m == fw.encryption_metadata
               enc == crypto_encrypt_firmware(files[firmwares[id].filename], x[1], x[3],
                                              x[2], firmwares[id].version, iv, Rnd) IN
           /\ Len(x[2]) > 0 => "password" \in DOMAIN m /\ m["password"] = x[2]
           /\ Len(x[2]) = 0 /\ x[3] # NoKey =>
                "password" \in DOMAIN m /\ m["password"] = x[3].name
           /\ \A k \in DOMAIN enc.meta : k \in DOMAIN m /\ m[k] = enc.meta[k]
           /\ fw.is_encrypted
           /\ fw.encryption_algorithm = x[1]]_vars

(***************************************************************************)
(* Construction of the catalog on a directory that holds files already     *)
(* (FirmwareManager.__init__, _load_metadata, _scan_existing_files).       *)
(***************************************************************************)
DotBin == <<".", "b", "i", "n">>
DotBinBin == <<".", "b", "i", "n", ".", "b", "i", "n">>
AHex == <<"a", ".", "h", "e", "x">>

\* names of the files found in the upload directory
DirNames == {FA, FB, OrigA, AHex, DotBin, DotBinBin}

\* the bytes stored under a name
StoredBytes(name) == Plain(Rep(7, Len(name)))

\* _scan_existing_files in every order glob may yield the files: of the
\* files that get one id, the one visited last stays
ScanOutcomes(fs, t) ==
    LET bins == {n \in DOMAIN fs : IsBin(n)}
        ids == {<<t, Stem(n)>> : n \in bins}
        last == {f \in [ids -> bins] : \A id \in ids : <<t, Stem(f[id])>> = id} IN
    {[id \in ids |-> _create_firmware_from_file(fs, f[id], t)] : f \in last}

InitStartup ==
    /\ firmwares = EmptyDict
    /\ files = EmptyDict
    /\ metadata_file = NoSidecar
    /\ now = 0
    /\ call = NoCall
    /\ ret = "none"
    /\ Idle
    /\ NoList

\* a file is put into the upload directory, not by the catalog
StoreFile(name) ==
    /\ name \notin DOMAIN files
    /\ files' = Put(files, name, StoredBytes(name))
    /\ call' = NoCall
    /\ ret' = "none"
    /\ UNCHANGED <<firmwares, metadata_file, now, fwlist, result, pc, loc>>

\* FirmwareManager(upload_dir): _load_metadata, and _save_metadata when the
\* scan found files
Startup ==
    /\ call' = Call("startup", NoId)
    /\ IF metadata_file.exists
       THEN /\ firmwares' = _load_metadata(metadata_file, files, now)
            /\ ret' = "loaded"
            /\ UNCHANGED metadata_file
       ELSE /\ firmwares' \in ScanOutcomes(files, now)
            /\ ret' = "scanned"
            /\ metadata_file' = IF DOMAIN firmwares' # {} THEN _save_metadata(firmwares')
                                ELSE metadata_file
    /\ UNCHANGED <<files, now, fwlist, result, pc, loc>>

NextStartup ==
    \/ Tick
    \/ \E name \in DirNames : StoreFile(name)
    \/ Startup

SpecStartup == InitStartup /\ [][NextStartup]_vars

\* the records of a sidecar
SidecarRecords(sidecar) == [id \in DOMAIN sidecar.data |-> from_dict(sidecar.data[id])]

\* C22: startup without a sidecar gives exactly one record for every
\* firmware file of the directory, unencrypted, with the checksum and the
\* size of the file and the version inferred from its name, and writes the
\* sidecar of these records; startup with a sidecar gives exactly the
\* records of the sidecar, so a second startup gives the records of the
\* first.
C22_StartupRecords ==
    [][Startup =>
        LET bins == {n \in DOMAIN files : IsBin(n)} IN
        IF metadata_file.exists
        THEN /\ firmwares' = SidecarRecords(metadata_file)
             /\ metadata_file' = metadata_file
        ELSE /\ \A n \in bins :
                    \E id \in DOMAIN firmwares' :
                        /\ firmwares'[id].filename = n
                        /\ ~firmwares'[id].is_encrypted
                        /\ firmwares'[id].checksum = calculate_checksum(files[n])
                        /\ firmwares'[id].size = ContentLen(files[n])
                        /\ firmwares'[id].version = _extract_version_from_filename(n, now)
             /\ Cardinality(DOMAIN firmwares') = Cardinality(bins)
             /\ bins # {} =>
                    /\ metadata_file'.exists
                    /\ SidecarRecords(metadata_file') = firmwares']_vars

(***************************************************************************)
(* Encryption in place with every combination of password and key.        *)
(***************************************************************************)
K32 == RawKey(Rep("b", 64))                                      \* 32 bytes 0xbb

\* a raw key of the length the algorithm asks for
KeyFor(algorithm) == IF algorithm = ALG_AES256 THEN K32 ELSE K16

\* <<algorithm, password, key>>: every cipher with neither, one or both of
\* a password and a raw key; and algorithm none
EncArgsAll ==
    UNION {{<<a, p, k>> : p \in {NoPassword, Pw}, k \in {NoKey, KeyFor(a)}} :
                a \in {ALG_XOR, ALG_AES128, ALG_AES256}}
        \cup {<<ALG_NONE, NoPassword, NoKey>>}

NextEncrypt ==
    \/ \E path \in FileNames, bytes \in PlainData, o \in OrigNames, v \in AddVersions :
            add_firmware(path, bytes, o, v)
    \/ \E id \in Ids, x \in EncArgsAll, iv \in IVs, wr \in {"ok", "fail"} :
            encrypt_firmware(id, x[1], x[2], x[3], iv, wr)

SpecEncrypt == Init /\ [][NextEncrypt]_vars

\* what os.urandom returns to a later call
Rnd2 == <<"r", "2">>

\* C24: a record encrypted by a successful encrypt with XOR, AES-128-CBC or
\* AES-256-CBC has a password entry p in its encryption_metadata, and
\* generate_key(algorithm, p) is the key its file was encrypted with,
\* whichever of password and key the caller supplied.
C24_DecryptableFromMetadata ==
    [][\A id \in Ids, x \in EncArgsAll, iv \in IVs :
        (/\ id \in DOMAIN firmwares
         /\ ~firmwares[id].is_encrypted
         /\ x[1] \in {ALG_XOR, ALG_AES128, ALG_AES256}
         /\ encrypt_firmware(id, x[1], x[2], x[3], iv, "ok")
         /\ ret' = "True")
        => LET m == firmwares'[id].encryption_metadata
               c == files'[firmwares'[id].filename]
               used == c.layers[Len(c.layers)].key IN
           /\ "password" \in DOMAIN m
           /\ Len(c.layers) > 0
           /\ generate_key(x[1], m["password"], Rnd2) = used]_vars

\* C25: in every state of the catalog a record with is_encrypted = true has
\* the tag of a cipher as its encryption_algorithm, never "none".
C25_EncryptedHasCipher ==
    \A id \in DOMAIN firmwares :
        firmwares[id].is_encrypted =>
            firmwares[id].encryption_algorithm \in {ALG_XOR, ALG_AES128, ALG_AES256}

\* C27: for every version a record carries, encrypt with AES-128-CBC and a
\* 16-byte key on an unencrypted record with a readable non-empty file packs
\* the four components of the version into the header and returns true.
C27_VersionFitsHeader ==
    [][\A id \in Ids, iv \in IVs :
        (/\ Readable(firmwares, files, id)
         /\ ~firmwares[id].is_encrypted
         /\ encrypt_firmware(id, ALG_AES128, NoPassword, K16, iv, "ok"))
        => /\ PackOk(_parse_firmware_version(firmwares[id].version))
           /\ ret' = "True"]_vars

\* C28: a successful add allocates an id that is not in the catalog: the
\* catalog has one record more than before and every record it had is still
\* there with its fields unchanged.
C28_AddAllocatesFreshId ==
    [][call'.op = "add" /\ ret' = "FirmwareInfo" =>
        /\ call'.id \notin DOMAIN firmwares
        /\ Cardinality(DOMAIN firmwares') = Cardinality(DOMAIN firmwares) + 1
        /\ \A id \in DOMAIN firmwares :
            id \in DOMAIN firmwares' /\ firmwares'[id] = firmwares[id]]_vars

(***************************************************************************)
(* Upload with encryption (FirmwareService.upload_firmware,                *)
(* FirmwareService.encrypt_firmware, FirmwareService.delete_firmware).     *)
(***************************************************************************)
ATxt == <<"a", ".", "t", "x", "t">>

\* file names of the uploads; secure_filename leaves these names as they are
UploadNames == {FA, AHex, ATxt}

\* the bytes of an uploaded file
UploadBytes(filename) == IF filename = AHex THEN <<>> ELSE <<7>>

K16Hex == Rep("a", 32)
BadHex == <<"z", "z">>
ALG_DES == "des"

\* <<encryption_type, key_method, password, encryption_key>> of the uploads
UploadArgs ==
    {<<ALG_NONE, "password", NoPassword, <<>>>>,
     <<ALG_XOR, "password", Pw, <<>>>>,
     <<ALG_AES128, "manual", NoPassword, K16Hex>>,
     <<ALG_XOR, "manual", NoPassword, BadHex>>,
     <<ALG_DES, "password", Pw, <<>>>>}

\* versions of the uploads; <<>> is no version
UploadVersions == {NoVersion, VBig}

\* os.path.splitext(name)[1]
Ext(name) == IF LastDot(name, Len(name)) <= 1 THEN <<>>
             ELSE SubSeq(name, LastDot(name, Len(name)), Len(name))

allowed_extensions == {<<".", "b", "i", "n">>, <<".", "h", "e", "x">>, <<".", "e", "l", "f">>}

\* f"{timestamp}_{filename}", the timestamp to the second
safe_filename(t, filename) == IntToStr(t) \o <<"_">> \o filename

\* FirmwareManager.encrypt_firmware as a function of the catalog and the
\* directory: the outcomes [ret, firmwares, files] it can have
encrypt_in_place(fws, fs, firmware_id, algorithm, password, key, iv) ==
    LET unchanged == [ret |-> "False", firmwares |-> fws, files |-> fs] IN
    IF ~Readable(fws, fs, firmware_id) THEN {unchanged}
    ELSE IF fws[firmware_id].is_encrypted THEN {[unchanged EXCEPT !.ret = "True"]}
    ELSE LET fw == fws[firmware_id]
             enc == crypto_encrypt_firmware(fs[fw.filename], algorithm, key, password,
                                            fw.version, iv, Rnd) IN
         IF ~enc.ok THEN {unchanged}
         ELSE {[ret |-> "True",
                firmwares |-> Put(fws, firmware_id,
                                  Encrypted(fw, algorithm, password, key, enc)),
                files |-> Put(fs, fw.filename, enc.out)]}
              \cup {[unchanged EXCEPT !.files = Put(fs, fw.filename, left)] :
                        left \in WriteFailures(fs[fw.filename])}

\* FirmwareService.encrypt_firmware: the outcomes [ret, firmwares, files];
\* ret = "True" is success
service_encrypt_firmware(fws, fs, firmware_id, algorithm, password, key_hex, iv) ==
    LET unchanged == [ret |-> "False", firmwares |-> fws, files |-> fs] IN
    IF algorithm \notin EncryptionType THEN {unchanged}
    ELSE IF Len(key_hex) > 0 /\ ~fromhex(key_hex).ok THEN {unchanged}
    ELSE encrypt_in_place(fws, fs, firmware_id, algorithm, password,
                          IF Len(key_hex) > 0 THEN RawKey(hex(fromhex(key_hex).bytes))
                          ELSE NoKey,
                          iv)

\* FirmwareManager.remove_firmware as a function: [firmwares, files]
removed(fws, fs, firmware_id) ==
    IF firmware_id \notin DOMAIN fws THEN [firmwares |-> fws, files |-> fs]
    ELSE [firmwares |-> Drop(fws, firmware_id),
          files |-> Drop(fs, fws[firmware_id].filename)]

\* the record add_firmware builds for an upload
UploadedFirmware(path, content, filename, version, t) ==
    [NewFirmware(path, content, filename, version, DefaultDevice, t)
        EXCEPT !.metadata = [upload_source |-> "web_api", upload_timestamp |-> t,
                             description |-> <<>>]]

\* FirmwareService.upload_firmware
upload_firmware(filename, version, encryption_type, key_method, password, encryption_key, iv) ==
    LET upload_path == safe_filename(now, filename)
        saved == Put(files, upload_path, Plain(UploadBytes(filename)))
        firmware == UploadedFirmware(upload_path, saved[upload_path], filename, version, now)
        added == Put(firmwares, firmware.id, firmware) IN
    /\ Cardinality(DOMAIN firmwares) < MaxRecords
    /\ call' = Call("upload", firmware.id)
    /\ UNCHANGED <<now, fwlist, result, pc, loc>>
    /\ IF Ext(filename) \notin allowed_extensions
       THEN ret' = "rejected" /\ UNCHANGED <<firmwares, files, metadata_file>>
       ELSE IF encryption_type = ALG_NONE
       THEN /\ ret' = "success"
            /\ firmwares' = added
            /\ files' = saved
            /\ metadata_file' = _save_metadata(firmwares')
       ELSE \E encrypt_result \in
                service_encrypt_firmware(added, saved, firmware.id, encryption_type,
                    IF key_method = "password" THEN password ELSE NoPassword,
                    IF key_method = "manual" THEN encryption_key ELSE <<>>, iv) :
            IF encrypt_result.ret = "True"
            THEN /\ ret' = "success"
                 /\ firmwares' = encrypt_result.firmwares
                 /\ files' = encrypt_result.files
                 /\ metadata_file' = _save_metadata(firmwares')
            ELSE LET left == removed(encrypt_result.firmwares, encrypt_result.files,
                                     firmware.id) IN
                 /\ ret' = "encryption failed"
                 /\ firmwares' = left.firmwares
                 /\ files' = left.files
                 /\ metadata_file' = _save_metadata(firmwares')

NextUpload ==
    \/ Tick
    \/ \E filename \in UploadNames, v \in UploadVersions, x \in UploadArgs, iv \in IVs :
            upload_firmware(filename, v, x[1], x[2], x[3], x[4], iv)

SpecUpload == Init /\ [][NextUpload]_vars

\* C29: an upload with an encryption type other than none that returns
\* success leaves the new record in the catalog with is_encrypted = true; one
\* that returns failure because the encryption failed leaves the catalog, the
\* sidecar and the directory without the record and its file, and every
\* record the catalog had before the upload as it was.
C29_UploadAllOrNothing ==
    [][\A filename \in UploadNames, v \in UploadVersions, x \in UploadArgs, iv \in IVs :
        (x[1] # ALG_NONE /\ upload_firmware(filename, v, x[1], x[2], x[3], x[4], iv))
        => /\ ret' = "success" =>
                /\ call'.id \in DOMAIN firmwares'
                /\ firmwares'[call'.id].is_encrypted
           /\ ret' = "encryption failed" =>
                /\ call'.id \notin DOMAIN firmwares'
                /\ call'.id \notin DOMAIN metadata_file'.data
                /\ safe_filename(now, filename) \notin DOMAIN files'
                /\ \A id \in DOMAIN firmwares :
                        /\ id \in DOMAIN firmwares'
                        /\ firmwares'[id] = firmwares[id]
                        /\ id \in DOMAIN metadata_file'.data]_vars

(***************************************************************************)
(* Listing and latest-selection (list_firmwares,                           *)
(* get_latest_version_firmware) as functions of the catalog's values.      *)
(***************************************************************************)
\* a sort key without the upload_time tie-break
version_sort_key_no_tiebreak(firmware) ==
    IF PartsOk(firmware.version)
    THEN <<Pad4(IntParts(firmware.version)), 0>>
    ELSE <<<<0, 0, 0, 0>>, 0>>

\* version_sort_key of list_firmwares: (tuple(parts[:4]), upload_time)
version_sort_key(firmware) ==
    IF PartsOk(firmware.version)
    THEN <<Pad4(IntParts(firmware.version)), firmware.upload_time>>
    ELSE <<<<0, 0, 0, 0>>, firmware.upload_time>>

\* k1 < k2 for two sort keys
KeyLess(k1, k2) ==
    \/ TupleLess(k1[1], k2[1])
    \/ k1[1] = k2[1] /\ k1[2] < k2[2]

\* list.sort(key=..., reverse=True): stable, equal keys keep their order
RECURSIVE InsertDesc(_, _, _)
InsertDesc(sorted, fw, i) ==
    IF i > Len(sorted) THEN Append(sorted, fw)
    ELSE IF KeyLess(version_sort_key(sorted[i]), version_sort_key(fw))
         THEN SubSeq(sorted, 1, i - 1) \o <<fw>> \o SubSeq(sorted, i, Len(sorted))
         ELSE InsertDesc(sorted, fw, i + 1)

RECURSIVE SortDesc(_, _, _)
SortDesc(fws, i, sorted) ==
    IF i > Len(fws) THEN sorted
    ELSE SortDesc(fws, i + 1, InsertDesc(sorted, fws[i], 1))

RECURSIVE Filter(_, _, _, _)
Filter(fws, i, target_device, encrypted_only) ==
    IF i > Len(fws) THEN <<>>
    ELSE LET keep == /\ (target_device = "" \/ fws[i].target_device = target_device)
                     /\ (encrypted_only = "None"
                         \/ fws[i].is_encrypted = (encrypted_only = "True"))
         IN (IF keep THEN <<fws[i]>> ELSE <<>>)
            \o Filter(fws, i + 1, target_device, encrypted_only)

\* FirmwareManager.list_firmwares; target_device "" is None, encrypted_only
\* is "None", "True" or "False"
list_firmwares(fws, target_device, encrypted_only) ==
    SortDesc(Filter(fws, 1, target_device, encrypted_only), 1, <<>>)

\* FirmwareManager.get_latest_version_firmware: <<>> is None
RECURSIVE LatestFrom(_, _, _)
LatestFrom(sorted, i, latest) ==
    IF i > Len(sorted) THEN latest
    ELSE LatestFrom(sorted, i + 1,
                    IF _compare_versions(sorted[i].version, latest.version) > 0
                    THEN sorted[i] ELSE latest)

get_latest_version_firmware(fws, target_device) ==
    LET sorted == list_firmwares(fws, target_device, "None") IN
    IF Len(sorted) = 0 THEN <<>> ELSE <<LatestFrom(sorted, 2, sorted[1])>>

\* versions of the catalogs listed: a four-part version, the two of the
\* numeric example, a two-part and an unparseable version
V1200 == <<"1", ".", "2", ".", "0", ".", "0">>
V2024 == <<"v", "2", ".", "1", ".", "5", ".", "2", "0", "2", "4">>
V100 == <<"v", "2", ".", "1", ".", "5", ".", "1", "0", "0">>
V12 == <<"1", ".", "2">>
VBad == <<"b", "a", "d">>
VersionPool == {V1200, V2024, V100, V12, VBad}
UploadTimes == {1, 2}
OtherDevice == "ESP32"
ListKinds == {<<DefaultDevice, FALSE>>, <<OtherDevice, TRUE>>}

ListRecord(id, version, t, kind) ==
    [id |-> id, version |-> version, upload_time |-> t,
     target_device |-> kind[1], is_encrypted |-> kind[2]]

ListCall(op, target_device, encrypted_only) ==
    [op |-> op, target_device |-> target_device, encrypted_only |-> encrypted_only]

\* every catalog of at most MaxList records; the id of a record is its
\* position in the map
InitList ==
    /\ \E n \in 0..MaxList :
        \E vs \in [1..n -> VersionPool], ts \in [1..n -> UploadTimes],
           ks \in [1..n -> ListKinds] :
            fwlist = [i \in 1..n |-> ListRecord(i, vs[i], ts[i], ks[i])]
    /\ result = <<>>
    /\ call = ListCall("none", "", "None")
    /\ ret = "none"
    /\ firmwares = EmptyDict
    /\ files = EmptyDict
    /\ metadata_file = NoSidecar
    /\ now = 0
    /\ Idle

\* the two functions only read: each catalog is listed once
List(target_device, encrypted_only) ==
    /\ call.op = "none"
    /\ result' = list_firmwares(fwlist, target_device, encrypted_only)
    /\ call' = ListCall("list", target_device, encrypted_only)
    /\ UNCHANGED <<firmwares, files, metadata_file, now, ret, fwlist, pc, loc>>

Latest(target_device) ==
    /\ call.op = "none"
    /\ result' = get_latest_version_firmware(fwlist, target_device)
    /\ call' = ListCall("latest", target_device, "None")
    /\ UNCHANGED <<firmwares, files, metadata_file, now, ret, fwlist, pc, loc>>

DeviceFilters == {"", DefaultDevice, OtherDevice}

NextList ==
    \/ \E d \in DeviceFilters, e \in {"None", "True", "False"} : List(d, e)
    \/ \E d \in DeviceFilters : Latest(d)

SpecList == InitList /\ [][NextList]_vars

\* C8: latest(filter) is none when list(filter) is empty and the first
\* element of list(filter) otherwise.
C8_LatestIsFirstOfList ==
    call.op = "latest" =>
        LET listed == list_firmwares(fwlist, call.target_device, "None") IN
        result = IF Len(listed) = 0 THEN <<>> ELSE <<listed[1]>>

\* the key the claims give list: the version as 4 integers, (0,0,0,0) when
\* it does not parse, then upload_time
ClaimKey(fw) ==
    <<IF PartsOk(fw.version) THEN Pad4(IntParts(fw.version)) ELSE <<0, 0, 0, 0>>,
      fw.upload_time>>

Passes(fw, target_device, encrypted_only) ==
    /\ (target_device = "" \/ fw.target_device = target_device)
    /\ (encrypted_only = "None" \/ fw.is_encrypted = (encrypted_only = "True"))

\* C9: list returns exactly the records passing the filters, each once, in
\* descending order of (version 4-tuple, upload_time); v2.1.5.2024 comes
\* before v2.1.5.100.
C9_ListFilteredAndOrdered ==
    call.op = "list" =>
        /\ {result[i].id : i \in 1..Len(result)} =
           {fwlist[i].id : i \in {j \in 1..Len(fwlist) :
                Passes(fwlist[j], call.target_device, call.encrypted_only)}}
        /\ \A i, j \in 1..Len(result) : i # j => result[i].id # result[j].id
        /\ \A i \in 1..Len(result) : result[i] = fwlist[result[i].id]
        /\ \A i, j \in 1..Len(result) :
            i < j => ~KeyLess(ClaimKey(result[i]), ClaimKey(result[j]))
        /\ \A i, j \in 1..Len(result) :
            (result[i].version = V2024 /\ result[j].version = V100) => i < j

\* C9 witness: a filtered listing in which a two-part version ties with its
\* padded form and the later upload comes first, against the catalog's order
C9_Witness ==
    /\ call.op = "list"
    /\ call.target_device = DefaultDevice
    /\ call.encrypted_only = "False"
    /\ Len(result) = 2
    /\ result[1].version = V12
    /\ result[2].version = V1200
    /\ result[1].upload_time > result[2].upload_time
    /\ result[1].id > result[2].id

(***************************************************************************)
(* Version inference (_extract_version_from_filename) as a function of    *)
(* the file name and the clock.                                            *)
(***************************************************************************)
MaxName == 4          \* length of the enumerated file names

NameChars == {"v", "1", "2", "."}

RECURSIVE NamesOfLen(_)
NamesOfLen(n) ==
    IF n = 0 THEN {<<>>}
    ELSE {Append(s, c) : s \in NamesOfLen(n - 1), c \in NameChars}

NameMotor == <<"m", "o", "t", "o", "r", "_", "c", "t", "r", "l", "_", "v",
               "1", ".", "2", ".", "3", ".", "4", "5", ".", "b", "i", "n">>
NameDate == <<"f", "w", "_", "2", "0", "2", "4", "0", "9", "0", "2", ".", "b", "i", "n">>
NameLate4 == <<"1", ".", "2", ".", "3", "_", "V", "4", ".", "5", ".", "6", ".", "7">>
NamePlain == <<"b", "o", "o", "t", ".", "b", "i", "n">>
NameFive == <<"1", ".", "2", ".", "3", ".", "4", ".", "5">>

Names == UNION {NamesOfLen(n) : n \in 0..MaxName}
            \cup {NameMotor, NameDate, NameLate4, NamePlain, NameFive}

\* int(time.time()) at the call
ExtractTimes == {7, 12345}

InitVersion ==
    /\ \E name \in Names : fwlist = <<name>>
    /\ now \in ExtractTimes
    /\ result = <<>>
    /\ call = Call("none", NoId)
    /\ ret = "none"
    /\ firmwares = EmptyDict
    /\ files = EmptyDict
    /\ metadata_file = NoSidecar
    /\ Idle

\* the version add_firmware infers when no version is given
Extract ==
    /\ call.op = "none"
    /\ result' = <<_extract_version_from_filename(fwlist[1], now)>>
    /\ call' = Call("extract", NoId)
    /\ UNCHANGED <<firmwares, files, metadata_file, now, ret, fwlist, pc, loc>>

NextVersion == Extract

SpecVersion == InitVersion /\ [][NextVersion]_vars

\* the text of the leftmost match of the k-part pattern in name, <<>> if none
PatternText(name, k) ==
    LET m == SearchFrom(name, 1, k) IN
    IF m = <<0, 0>> THEN <<>> ELSE SubSeq(name, m[1], m[2] - 1)

\* the build component given to a match of fewer than 4 parts
ClockBuild(t) == IntToStr(t % 10000)

\* C14: the inferred version is decided by the highest-priority pattern that
\* matches anywhere in the name: a 4-part match is the version as found, a
\* shorter match is completed to 4 parts; with no match an 8-digit token
\* gives 1.0.0.<token>, and anything else gives 1.0.0.0.
C14_InferencePriority ==
    call.op = "extract" =>
        LET name == fwlist[1]
            p4 == PatternText(name, 4)
            p3 == PatternText(name, 3)
            p2 == PatternText(name, 2)
            p1 == PatternText(name, 1)
            date == SearchDate(name, 1) IN
        result[1] =
            IF p4 # <<>> THEN p4
            ELSE IF p3 # <<>> THEN p3 \o <<".">> \o ClockBuild(now)
            ELSE IF p2 # <<>> THEN p2 \o <<".", "0", ".">> \o ClockBuild(now)
            ELSE IF p1 # <<>> THEN p1 \o <<".", "0", ".", "0", ".">> \o ClockBuild(now)
            ELSE IF date # <<0, 0>>
                 THEN <<"1", ".", "0", ".", "0", ".">> \o SubSeq(name, date[1], date[2] - 1)
            ELSE <<"1", ".", "0", ".", "0", ".", "0">>

\* C14 witness: motor_ctrl_v1.2.3.45.bin has given 1.2.3.45
C14_Witness ==
    /\ call.op = "extract"
    /\ fwlist[1] = NameMotor
    /\ result[1] = <<"1", ".", "2", ".", "3", ".", "4", "5">>

(***************************************************************************)
(* Key derivation (_derive_aes_key_stm32_compatible) as a function of the *)
(* password.                                                               *)
(***************************************************************************)
MaxPw == 3            \* length of the enumerated passwords

PwChars == {"a", "1", " ", "e_acute"}

RECURSIVE PwOfLen(_)
PwOfLen(n) ==
    IF n = 0 THEN {<<>>}
    ELSE {Append(s, c) : s \in PwOfLen(n - 1), c \in PwChars}

PwTest == <<"t", "e", "s", "t">>
PwHex32 == <<"0", "1", "2", "3", "4", "5", "6", "7", "8", "9", "a", "b", "c", "d", "e", "f",
             "A", "B", "C", "D", "E", "F", "0", "1", "2", "3", "4", "5", "6", "7", "8", "9">>
PwHex31 == SubSeq(PwHex32, 1, 31)
PwHex33 == Append(PwHex32, "0")
PwNotHex32 == Append(PwHex31, "g")
PwBlank32 == <<"a", "a", " ", "b", "b", " ", "c", "c", " ", "d", "d", " ", "e", "e", " ", "f", "f",
               " ", "0", "0", " ", "1", "1", " ", "2", "2", " ", "3", "3", " ", " ", " ">>
PwLong == Rep("a", 24) \o <<"b", "1">>
PwSplit == <<"a">> \o Rep("e_acute", 12)

Passwords == UNION {PwOfLen(n) : n \in 1..MaxPw}
                \cup {PwTest, PwHex32, PwHex31, PwHex33, PwNotHex32, PwBlank32,
                      PwLong, PwSplit, Rep("a", 32), Rep("F", 32)}

InitKey ==
    /\ \E password \in Passwords : fwlist = <<password>>
    /\ result = <<>>
    /\ call = Call("none", NoId)
    /\ ret = "none"
    /\ now = 0
    /\ firmwares = EmptyDict
    /\ files = EmptyDict
    /\ metadata_file = NoSidecar
    /\ Idle

\* a call of _derive_aes_key_stm32_compatible; ret is the branch that returned
Derive ==
    /\ result' = derive_key_bytes(fwlist[1])
    /\ ret' = IF HexBypass(fwlist[1]) THEN "bypass" ELSE "rounds"
    /\ call' = Call("derive", NoId)
    /\ UNCHANGED <<firmwares, files, metadata_file, now, fwlist, pc, loc>>

NextKey == Derive

SpecKey == InitKey /\ [][NextKey]_vars

\* C15: a password of exactly 32 hexadecimal characters gives the 16 bytes
\* it decodes to, without the rounds; no other password takes the bypass.
C15_HexBypass ==
    call.op = "derive" =>
        LET P == fwlist[1]
            hex32 == Len(P) = 32 /\ \A i \in 1..32 : P[i] \in HexChars IN
        /\ hex32 <=> ret = "bypass"
        /\ hex32 => result = [i \in 1..16 |-> 16 * HexVal(P[2 * i - 1]) + HexVal(P[2 * i])]

\* C15 witness: a 32-character hex password of both cases has been decoded
C15_Witness ==
    /\ call.op = "derive"
    /\ fwlist[1] = PwHex32
    /\ ret = "bypass"
    /\ result[6] = 171
    /\ Len(result) = 16

\* the 32-bit word w, little-endian
LittleEndian32(w) == [k \in 1..4 |-> (w \div (256 ^ (k - 1))) % 256]

\* the scratch buffer of the reference procedure
ReferenceScratch(P) ==
    LET bytes == Utf8(P)
        head == [i \in 1..24 |-> IF i <= Len(bytes) THEN bytes[i] ELSE 0] IN
    head \o LittleEndian32(98107189) \o LittleEndian32(825382478)

\* the key of the reference procedure after round r (bytes numbered from 0
\* as i - 1): both halves of the scratch buffer hold the key of round r - 1
RECURSIVE ReferenceKey(_, _)
ReferenceKey(P, r) ==
    LET low == IF r = 0 THEN SubSeq(ReferenceScratch(P), 1, 16) ELSE ReferenceKey(P, r - 1)
        high == IF r = 0 THEN SubSeq(ReferenceScratch(P), 17, 32) ELSE low IN
    [i \in 1..16 |-> Xor(Xor(Xor(low[i], high[i]), r), (i - 1 + r) % 256)]

\* C16: a password that does not take the bypass gives the key of the
\* reference procedure after its 10 rounds, and gives it again on every
\* repeated call.
C16_ReferenceDerivation ==
    /\ []((call.op = "derive" /\ ret = "rounds") => result = ReferenceKey(fwlist[1], 9))
    /\ [][(call.op = "derive" /\ call'.op = "derive") => result' = result]_vars

\* C16 witness: "test" has been derived by the rounds
C16_Witness ==
    /\ call.op = "derive"
    /\ fwlist[1] = PwTest
    /\ ret = "rounds"
    /\ Len(result) = 16

\* C23: the derived key depends on the password: for the key derived from a
\* password that does not take the bypass, some other such password gives
\* another key.
C23_KeyDependsOnPassword ==
    call.op = "derive" /\ ret = "rounds" =>
        \E other \in Passwords :
            /\ ~HexBypass(other)
            /\ derive_key_bytes(other) # result

(***************************************************************************)
(* The ciphers on bytes (_xor_encrypt, _xor_decrypt) as functions of the  *)
(* data and the key.                                                       *)
(***************************************************************************)
MaxData == 3          \* length of the enumerated data
MaxKey == 2           \* length of the enumerated keys

ByteVals == {0, 1, 170, 255}

RECURSIVE BytesOfLen(_)
BytesOfLen(n) ==
    IF n = 0 THEN {<<>>}
    ELSE {Append(s, b) : s \in BytesOfLen(n - 1), b \in ByteVals}

DataPool == UNION {BytesOfLen(n) : n \in 0..MaxData}
KeyPool == UNION {BytesOfLen(n) : n \in 0..MaxKey}

\* byte + key byte modulo 256 in place of ^
xor_bytes_add(data, key) ==
    IF Len(key) = 0 THEN data
    ELSE [i \in 1..Len(data) |-> (data[i] + key[((i - 1) % Len(key)) + 1]) % 256]

\* CryptoManager._xor_encrypt on bytes
xor_bytes(data, key) ==
    IF Len(key) = 0 THEN data
    ELSE [i \in 1..Len(data) |-> Xor(data[i], key[((i - 1) % Len(key)) + 1])]

\* CryptoManager._xor_decrypt on bytes
xor_decrypt_bytes(encrypted_data, key) == xor_bytes(encrypted_data, key)

InitXor ==
    /\ \E D \in DataPool, K \in KeyPool : fwlist = <<D, K>>
    /\ result = <<>>
    /\ call = Call("none", NoId)
    /\ ret = "none"
    /\ now = 0
    /\ firmwares = EmptyDict
    /\ files = EmptyDict
    /\ metadata_file = NoSidecar
    /\ Idle

XorEncrypt ==
    /\ call.op = "none"
    /\ result' = <<xor_bytes(fwlist[1], fwlist[2])>>
    /\ call' = Call("xor_encrypt", NoId)
    /\ UNCHANGED <<firmwares, files, metadata_file, now, ret, fwlist, pc, loc>>

\* the decryption of what _xor_encrypt returned
XorDecrypt ==
    /\ call.op = "xor_encrypt"
    /\ result' = <<result[1], xor_decrypt_bytes(result[1], fwlist[2])>>
    /\ call' = Call("xor_decrypt", NoId)
    /\ UNCHANGED <<firmwares, files, metadata_file, now, ret, fwlist, pc, loc>>

NextXor == XorEncrypt \/ XorDecrypt

SpecXor == InitXor /\ [][NextXor]_vars

\* C17: the XOR ciphertext has the length of the data and byte i is
\* D[i] XOR K[i mod len(K)]; decrypting it with the same key gives D.
C17_XorInvolution ==
    LET D == fwlist[1]
        K == fwlist[2] IN
    /\ call.op \in {"xor_encrypt", "xor_decrypt"} =>
        /\ Len(result[1]) = Len(D)
        /\ Len(K) > 0 =>
            \A i \in 0..(Len(D) - 1) : result[1][i + 1] = Xor(D[i + 1], K[(i % Len(K)) + 1])
    /\ call.op = "xor_decrypt" => result[2] = D

\* C17 witness: data longer than the key has been encrypted to other bytes
\* and decrypted
C17_Witness ==
    /\ call.op = "xor_decrypt"
    /\ Len(fwlist[1]) > Len(fwlist[2])
    /\ Len(fwlist[2]) > 1
    /\ result[1] # fwlist[1]
    /\ result[2] = fwlist[1]

(***************************************************************************)
(* AES (FIPS 197) and CBC with PKCS7, what Cipher(algorithms.AES(key),     *)
(* modes.CBC(iv)) and padding.PKCS7(128) compute.  A block and a round key *)
(* are 16 bytes in the order of the input, byte r + 4c at row r, column c. *)
(***************************************************************************)
SBox == <<
    99, 124, 119, 123, 242, 107, 111, 197, 48, 1, 103, 43, 254, 215, 171, 118,
    202, 130, 201, 125, 250, 89, 71, 240, 173, 212, 162, 175, 156, 164, 114, 192,
    183, 253, 147, 38, 54, 63, 247, 204, 52, 165, 229, 241, 113, 216, 49, 21,
    4, 199, 35, 195, 24, 150, 5, 154, 7, 18, 128, 226, 235, 39, 178, 117,
    9, 131, 44, 26, 27, 110, 90, 160, 82, 59, 214, 179, 41, 227, 47, 132,
    83, 209, 0, 237, 32, 252, 177, 91, 106, 203, 190, 57, 74, 76, 88, 207,
    208, 239, 170, 251, 67, 77, 51, 133, 69, 249, 2, 127, 80, 60, 159, 168,
    81, 163, 64, 143, 146, 157, 56, 245, 188, 182, 218, 33, 16, 255, 243, 210,
    205, 12, 19, 236, 95, 151, 68, 23, 196, 167, 126, 61, 100, 93, 25, 115,
    96, 129, 79, 220, 34, 42, 144, 136, 70, 238, 184, 20, 222, 94, 11, 219,
    224, 50, 58, 10, 73, 6, 36, 92, 194, 211, 172, 98, 145, 149, 228, 121,
    231, 200, 55, 109, 141, 213, 78, 169, 108, 86, 244, 234, 101, 122, 174, 8,
    186, 120, 37, 46, 28, 166, 180, 198, 232, 221, 116, 31, 75, 189, 139, 138,
    112, 62, 181, 102, 72, 3, 246, 14, 97, 53, 87, 185, 134, 193, 29, 158,
    225, 248, 152, 17, 105, 217, 142, 148, 155, 30, 135, 233, 206, 85, 40, 223,
    140, 161, 137, 13, 191, 230, 66, 104, 65, 153, 45, 15, 176, 84, 187, 22>>

InvSBox == [v \in 0..255 |-> CHOOSE x \in 0..255 : SBox[x + 1] = v]

\* multiplication by x in GF(2^8) modulo x^8 + x^4 + x^3 + x + 1
XTime(b) == IF b >= 128 THEN Xor((2 * b) % 256, 27) ELSE 2 * b

RECURSIVE GMul(_, _)
GMul(a, b) ==
    IF b = 0 THEN 0
    ELSE Xor(IF b % 2 = 1 THEN a ELSE 0, GMul(XTime(a), b \div 2))

\* a function over 1..n as the tuple of its values
TupleOf(f, n) == SubSeq(f, 1, n)

XorSeq(a, b) == TupleOf([i \in 1..Len(a) |-> Xor(a[i], b[i])], Len(a))

\* the key schedule: words 1..4(Nr+1), each of 4 bytes; Nk words of key
RECURSIVE ExpandFrom(_, _, _, _)
ExpandFrom(w, Nk, Nr, rcon) ==
    LET n == Len(w)
        prev == w[n]
        rot == <<SBox[prev[2] + 1], SBox[prev[3] + 1], SBox[prev[4] + 1], SBox[prev[1] + 1]>>
        temp == IF n % Nk = 0 THEN <<Xor(rot[1], rcon), rot[2], rot[3], rot[4]>>
                ELSE IF Nk > 6 /\ n % Nk = 4
                     THEN [k \in 1..4 |-> SBox[prev[k] + 1]]
                ELSE prev IN
    IF n = 4 * (Nr + 1) THEN w
    ELSE ExpandFrom(Append(w, XorSeq(w[n - Nk + 1], temp)), Nk, Nr,
                    IF n % Nk = 0 THEN XTime(rcon) ELSE rcon)

KeyExpansion(key) ==
    LET words == Len(key) \div 4 IN
    ExpandFrom([i \in 1..words |-> SubSeq(key, 4 * i - 3, 4 * i)], words, words + 6, 1)

\* the 16 bytes of round key r (r from 0)
RoundKeyOf(w, r) == w[4 * r + 1] \o w[4 * r + 2] \o w[4 * r + 3] \o w[4 * r + 4]

SubBytes(s) == TupleOf([i \in 1..16 |-> SBox[s[i] + 1]], 16)
InvSubBytes(s) == TupleOf([i \in 1..16 |-> InvSBox[s[i]]], 16)

ShiftRows(s) ==
    TupleOf([i \in 1..16 |-> LET r == (i - 1) % 4
                                 c == (i - 1) \div 4 IN s[r + 4 * ((c + r) % 4) + 1]], 16)
InvShiftRows(s) ==
    TupleOf([i \in 1..16 |-> LET r == (i - 1) % 4
                                 c == (i - 1) \div 4 IN s[r + 4 * ((c + 4 - r) % 4) + 1]], 16)

\* a column times the circulant matrix whose first row is m
MixWith(s, m) ==
    TupleOf([i \in 1..16 |->
        LET r == (i - 1) % 4
            c == (i - 1) \div 4
            a == SubSeq(s, 4 * c + 1, 4 * c + 4) IN
        Xor(Xor(GMul(a[1], m[((4 - r) % 4) + 1]), GMul(a[2], m[((5 - r) % 4) + 1])),
            Xor(GMul(a[3], m[((6 - r) % 4) + 1]), GMul(a[4], m[((7 - r) % 4) + 1])))], 16)

MixColumns(s) == MixWith(s, <<2, 3, 1, 1>>)
InvMixColumns(s) == MixWith(s, <<14, 11, 13, 9>>)

\* the states of the cipher: states[n] is the state after round n - 1,
\* states[1] the block after the first AddRoundKey
RECURSIVE CipherRounds(_, _, _)
CipherRounds(states, w, Nr) ==
    LET n == Len(states)
        sub == ShiftRows(SubBytes(states[n])) IN
    IF n = Nr THEN XorSeq(sub, RoundKeyOf(w, Nr))
    ELSE CipherRounds(Append(states, XorSeq(MixColumns(sub), RoundKeyOf(w, n))), w, Nr)

\* the AES encryption of one block under key (16, 24 or 32 bytes)
AesBlockEncrypt(block, key) ==
    LET schedule == KeyExpansion(key)
        rounds == Len(key) \div 4 + 6 IN
    CipherRounds(<<XorSeq(block, RoundKeyOf(schedule, 0))>>, schedule, rounds)

\* the states of the inverse cipher: states[n] is the state after n - 1
\* inverse rounds, states[1] the block after AddRoundKey with round key Nr
RECURSIVE InvCipherRounds(_, _, _)
InvCipherRounds(states, w, Nr) ==
    LET n == Len(states)
        sub == XorSeq(InvSubBytes(InvShiftRows(states[n])), RoundKeyOf(w, Nr - n)) IN
    IF n = Nr THEN sub
    ELSE InvCipherRounds(Append(states, InvMixColumns(sub)), w, Nr)

\* the AES decryption of one block
AesBlockDecrypt(block, key) ==
    LET schedule == KeyExpansion(key)
        rounds == Len(key) \div 4 + 6 IN
    InvCipherRounds(<<XorSeq(block, RoundKeyOf(schedule, rounds))>>, schedule, rounds)

(***************************************************************************)
(* _aes_encrypt and _aes_decrypt on bytes: PKCS7 over 16-byte blocks and   *)
(* CBC chaining from the IV that _aes_encrypt draws.                       *)
(***************************************************************************)
MaxPlain == 32        \* length of the longest enumerated plaintext

BlockSize == 16

\* padder.update(data) + padder.finalize() without the whole block that
\* PKCS7 adds to data of a multiple of 16 bytes
Pkcs7Pad_no_full_block(data) ==
    LET n == (BlockSize - (Len(data) % BlockSize)) % BlockSize IN
    data \o TupleOf([i \in 1..n |-> n], n)

\* padding.PKCS7(128).padder(): update(data) + finalize()
Pkcs7Pad(data) ==
    LET n == BlockSize - (Len(data) % BlockSize) IN
    data \o TupleOf([i \in 1..n |-> n], n)

\* padding.PKCS7(128).unpadder(): update(padded) + finalize(), which raises
\* ValueError on bytes that are not a padded text
Pkcs7Unpad(padded) ==
    LET len == Len(padded)
        n == IF len = 0 THEN 0 ELSE padded[len] IN
    IF /\ len > 0
       /\ len % BlockSize = 0
       /\ n \in 1..BlockSize
       /\ \A i \in (len - n + 1)..len : padded[i] = n
    THEN [ok |-> TRUE, data |-> SubSeq(padded, 1, len - n)]
    ELSE [ok |-> FALSE, data |-> <<>>]

\* Cipher(algorithms.AES(key), modes.CBC(iv)).encryptor() over whole blocks:
\* out is the ciphertext so far
RECURSIVE CbcEncrypt(_, _, _, _)
CbcEncrypt(out, padded, key, iv) ==
    LET n == Len(out)
        prev == IF n = 0 THEN iv ELSE SubSeq(out, n - BlockSize + 1, n) IN
    IF n >= Len(padded) THEN out
    ELSE CbcEncrypt(out \o AesBlockEncrypt(XorSeq(SubSeq(padded, n + 1, n + BlockSize), prev),
                                           key),
                    padded, key, iv)

\* Cipher(algorithms.AES(key), modes.CBC(iv)).decryptor() over whole blocks:
\* out is the plaintext so far
RECURSIVE CbcDecrypt(_, _, _, _)
CbcDecrypt(out, encrypted_data, key, iv) ==
    LET n == Len(out)
        prev == IF n = 0 THEN iv ELSE SubSeq(encrypted_data, n - BlockSize + 1, n) IN
    IF n >= Len(encrypted_data) THEN out
    ELSE CbcDecrypt(out \o XorSeq(AesBlockDecrypt(SubSeq(encrypted_data, n + 1, n + BlockSize),
                                                  key),
                                  prev),
                    encrypted_data, key, iv)

\* CryptoManager._aes_encrypt on bytes, iv the 16 bytes of os.urandom(16)
aes_encrypt_bytes(data, key, iv) ==
    [encrypted_data |-> CbcEncrypt(<<>>, Pkcs7Pad(data), key, iv), iv |-> iv]

\* CryptoManager._aes_decrypt on bytes: the data, or ValueError from
\* decryptor.finalize() or unpadder.finalize()
aes_decrypt_bytes(encrypted_data, key, iv) ==
    IF Len(encrypted_data) % BlockSize # 0 THEN [ok |-> FALSE, data |-> <<>>]
    ELSE Pkcs7Unpad(CbcDecrypt(<<>>, encrypted_data, key, iv))

\* n bytes first, first + step, ... modulo 256
Ramp(n, first, step) == TupleOf([i \in 1..n |-> (first + (i - 1) * step) % 256], n)

PlainLens == {0, 1, BlockSize - 1, BlockSize, BlockSize + 1, MaxPlain}

\* plaintexts of every length around the block size: zero bytes, bytes that
\* read as padding (1, 16) and mixed bytes
PlainPool ==
    {Ramp(n, f, 0) : n \in PlainLens, f \in {0, 1, BlockSize}}
        \cup {Ramp(n, 50, 71) : n \in PlainLens}

\* keys of AES-128 and AES-256
AesKeyPool == {Ramp(16, 0, 1), Ramp(16, 255, 0), Ramp(32, 96, 13)}

\* values of os.urandom(16)
IvPool == {Ramp(BlockSize, 0, 0), Ramp(BlockSize, 255, 250)}

InitAes ==
    /\ \E D \in PlainPool, K \in AesKeyPool : fwlist = <<D, K>>
    /\ result = <<>>
    /\ call = Call("none", NoId)
    /\ ret = "none"
    /\ now = 0
    /\ firmwares = EmptyDict
    /\ files = EmptyDict
    /\ metadata_file = NoSidecar
    /\ Idle

AesEncrypt ==
    /\ call.op = "none"
    /\ \E iv \in IvPool :
        LET r == aes_encrypt_bytes(fwlist[1], fwlist[2], iv) IN
        result' = <<r.encrypted_data, r.iv>>
    /\ call' = Call("aes_encrypt", NoId)
    /\ UNCHANGED <<firmwares, files, metadata_file, now, ret, fwlist, pc, loc>>

\* the decryption of what _aes_encrypt returned, with the key it was given
AesDecrypt ==
    /\ call.op = "aes_encrypt"
    /\ LET r == aes_decrypt_bytes(result[1], fwlist[2], result[2]) IN
        /\ result' = <<result[1], result[2], r.data>>
        /\ ret' = IF r.ok THEN "ok" ELSE "ValueError"
    /\ call' = Call("aes_decrypt", NoId)
    /\ UNCHANGED <<firmwares, files, metadata_file, now, fwlist, pc, loc>>

NextAes == AesEncrypt \/ AesDecrypt

SpecAes == InitAes /\ [][NextAes]_vars

\* C18: decrypting the ciphertext of _aes_encrypt(D, K) with K and the IV
\* that _aes_encrypt returned, and stripping PKCS7, succeeds and gives
\* exactly D, for keys of 16 and of 32 bytes.
C18_AesRoundTrip ==
    call.op = "aes_decrypt" =>
        /\ Len(fwlist[2]) \in {16, 32}
        /\ ret = "ok"
        /\ result[3] = fwlist[1]

\* C18 witness: a whole block of bytes 16, which reads as a padding block,
\* has been encrypted under a 32-byte key to two blocks and decrypted
C18_Witness ==
    /\ call.op = "aes_decrypt"
    /\ fwlist[1] = Ramp(BlockSize, BlockSize, 0)
    /\ Len(fwlist[2]) = 32
    /\ Len(result[1]) = 2 * BlockSize
    /\ result[3] = fwlist[1]

\* C18, AES-128: a text of one byte more than a block has been encrypted
\* under a 16-byte key to other bytes and decrypted
C18_Witness128 ==
    /\ call.op = "aes_decrypt"
    /\ Len(fwlist[1]) = BlockSize + 1
    /\ Len(fwlist[2]) = 16
    /\ SubSeq(result[1], 1, BlockSize + 1) # fwlist[1]
    /\ result[3] = fwlist[1]

(***************************************************************************)
(* _calculate_crc32_stm32: the table-driven checksum of the image header.  *)
(* A 32-bit word is the pair <<high, low>> of its 16-bit halves, its value *)
(* high * 65536 + low.                                                     *)
(***************************************************************************)
MaxCrcLen == 3        \* length of the enumerated checksum inputs

\* the lookup table of _calculate_crc32_stm32, entry by entry
crc32_table == <<
    <<0, 0>>, <<30471, 12438>>, <<60942, 24876>>, <<39177, 20922>>, <<1901, 50201>>, <<28778, 62607>>,
    <<59747, 42293>>, <<40548, 38307>>, <<3803, 34866>>, <<31196, 47268>>, <<57557, 59678>>, <<38866, 55688>>,
    <<2486, 19499>>, <<32433, 31933>>, <<59320, 11527>>, <<37055, 7569>>, <<7607, 4196>>, <<27312, 8434>>,
    <<62393, 29000>>, <<33982, 16862>>, <<6874, 54397>>, <<28125, 58603>>, <<62676, 46417>>, <<33747, 34247>>,
    <<4972, 38998>>, <<25707, 43200>>, <<64866, 63866>>, <<35429, 51692>>, <<5121, 23631>>, <<25350, 27865>>,
    <<64015, 15715>>, <<36104, 3573>>, <<15214, 8392>>, <<19561, 4190>>, <<54624, 16868>>, <<41575, 29042>>,
    <<15363, 58577>>, <<19204, 54343>>, <<53773, 34301>>, <<42250, 46443>>, <<13749, 43258>>, <<17074, 39020>>,
    <<56251, 51670>>, <<44220, 63808>>, <<13016, 27875>>, <<17887, 23669>>, <<56534, 3535>>, <<43985, 15705>>,
    <<9945, 12460>>, <<20958, 58>>, <<51415, 20864>>, <<49104, 24854>>, <<8628, 62645>>, <<22195, 50211>>,
    <<53178, 38297>>, <<47293, 42255>>, <<10242, 47262>>, <<24325, 34824>>, <<50700, 55730>>, <<45323, 59684>>,
    <<12143, 31879>>, <<22632, 19473>>, <<49505, 7595>>, <<46694, 11581>>, <<30428, 16784>>, <<475, 28934>>,
    <<39122, 8380>>, <<61397, 4138>>, <<29105, 34185>>, <<1718, 46367>>, <<40895, 58533>>, <<59576, 54323>>,
    <<30727, 51618>>, <<3840, 63796>>, <<38409, 43150>>, <<57614, 38936>>, <<32618, 3515>>, <<2157, 15661>>,
    <<37220, 27799>>, <<58979, 23553>>, <<27499, 20980>>, <<7276, 24930>>, <<34149, 12504>>, <<62050, 78>>,
    <<27654, 38381>>, <<6913, 42363>>, <<33288, 62657>>, <<62735, 50263>>, <<26032, 55750>>, <<4791, 59728>>,
    <<35774, 47338>>, <<64697, 34940>>, <<25309, 7647>>, <<5594, 11593>>, <<36051, 31987>>, <<64468, 19557>>,
    <<19890, 24920>>, <<15029, 20942>>, <<41916, 116>>, <<54459, 12514>>, <<19167, 42305>>, <<15832, 38359>>,
    <<42193, 50285>>, <<54230, 62715>>, <<17257, 59754>>, <<13422, 55804>>, <<44391, 34886>>, <<55904, 47312>>,
    <<17412, 11635>>, <<13059, 7653>>, <<43530, 19551>>, <<56589, 31945>>, <<20485, 28988>>, <<9986, 16810>>,
    <<48651, 4112>>, <<51468, 8326>>, <<22376, 46373>>, <<8303, 34227>>, <<47462, 54281>>, <<52833, 58527>>,
    <<24286, 63758>>, <<10713, 51608>>, <<45264, 38946>>, <<51159, 43188>>, <<22963, 15639>>, <<11956, 3457>>,
    <<47037, 23611>>, <<49338, 27821>>, <<60856, 33568>>, <<39615, 46006>>, <<950, 57868>>, <<29873, 53914>>,
    <<60117, 18233>>, <<40402, 30639>>, <<1243, 9749>>, <<29660, 5763>>, <<58211, 2834>>, <<37988, 15236>>,
    <<3437, 27198>>, <<31338, 23208>>, <<58382, 53003>>, <<37641, 65437>>, <<2560, 44583>>, <<32007, 40625>>,
    <<61455, 37700>>, <<34568, 41938>>, <<7681, 62056>>, <<26886, 49918>>, <<63330, 22365>>, <<32869, 26571>>,
    <<6508, 13937>>, <<28267, 1767>>, <<65236, 7030>>, <<35283, 11232>>, <<4314, 31322>>, <<26589, 19148>>,
    <<63929, 57199>>, <<36542, 61433>>, <<6071, 48707>>, <<24752, 36565>>, <<54998, 41960>>, <<41425, 37758>>,
    <<14552, 49860>>, <<20447, 62034>>, <<53691, 26609>>, <<42684, 22375>>, <<16309, 1757>>, <<18610, 13899>>,
    <<55309, 11226>>, <<44810, 6988>>, <<13827, 19190>>, <<16644, 31328>>, <<57184, 61379>>, <<43111, 57173>>,
    <<12654, 36591>>, <<18025, 48761>>, <<52065, 45964>>, <<48230, 33562>>, <<9583, 53920>>, <<21096, 57910>>,
    <<52236, 30613>>, <<47883, 18179>>, <<8706, 5817>>, <<21765, 9775>>, <<50618, 15294>>, <<45757, 2856>>,
    <<11188, 23186>>, <<23731, 27140>>, <<49879, 65447>>, <<46544, 53041>>, <<11481, 40587>>, <<23518, 44573>>,
    <<39780, 49840>>, <<60515, 61990>>, <<30058, 41884>>, <<621, 37642>>, <<39945, 1705>>, <<60174, 13887>>,
    <<29191, 26501>>, <<1280, 22291>>, <<38335, 19074>>, <<58040, 31252>>, <<31665, 11182>>, <<3254, 6968>>,
    <<37586, 36507>>, <<58837, 48653>>, <<31964, 61367>>, <<3035, 57121>>, <<34515, 53972>>, <<61908, 57922>>,
    <<26845, 46072>>, <<8154, 33646>>, <<33214, 5837>>, <<63161, 9819>>, <<28592, 30689>>, <<6327, 18295>>,
    <<34824, 23270>>, <<65295, 27248>>, <<26118, 15306>>, <<4353, 2908>>, <<36709, 40703>>, <<63586, 44649>>,
    <<24939, 65491>>, <<5740, 53061>>, <<40970, 57976>>, <<55053, 53998>>, <<19972, 33620>>, <<14595, 46018>>,
    <<42855, 9825>>, <<53344, 5879>>, <<18793, 18253>>, <<15982, 30683>>, <<44753, 27210>>, <<55766, 23260>>,
    <<16607, 2918>>, <<14296, 15344>>, <<43452, 44627>>, <<57019, 40645>>, <<18354, 53119>>, <<12469, 65513>>,
    <<48573, 61980>>, <<51898, 49802>>, <<21427, 37680>>, <<9396, 41894>>, <<47824, 13829>>, <<52695, 1683>>,
    <<21726, 22313>>, <<9177, 26559>>, <<45926, 31278>>, <<50273, 19128>>, <<23912, 6914>>, <<10863, 11156>>,
    <<46091, 48695>>, <<49932, 36513>>, <<23045, 57115>>, <<11522, 61325>>>>

\* 0xFFFFFFFF
Mask32 == <<65535, 65535>>

\* a ^ b on words
XorWord(a, b) == <<Xor(a[1], b[1]), Xor(a[2], b[2])>>

\* w >> k for k up to 16, pow the k-th power of 2
ShiftRight(w, pow) == <<w[1] \div pow, (w[1] % pow) * (65536 \div pow) + (w[2] \div pow)>>

\* the loop of _calculate_crc32_stm32: regs[n + 1] is crc after the first n
\* bytes of data, and the last of them the register the loop leaves
RECURSIVE CrcLoop(_, _)
CrcLoop(regs, data) ==
    LET n == Len(regs)
        crc == regs[n] IN
    IF n > Len(data) THEN crc
    ELSE CrcLoop(Append(regs, XorWord(crc32_table[(Xor(crc[2], data[n]) % 256) + 1],
                                      ShiftRight(crc, 256))),
                 data)

CrcRegister(data) == CrcLoop(<<Mask32>>, data)

\* _calculate_crc32_stm32 returning the register as the loop leaves it
_calculate_crc32_stm32_no_inversion(data) == CrcRegister(data)

\* CryptoManager._calculate_crc32_stm32; (~crc) & 0xFFFFFFFF complements the
\* low 32 bits of crc
_calculate_crc32_stm32(data) ==
    LET crc == CrcRegister(data) IN
    <<65535 - (crc[1] % 65536), 65535 - (crc[2] % 65536)>>

\* b"123456789"
CheckText == <<49, 50, 51, 52, 53, 54, 55, 56, 57>>

\* checksum inputs: every single byte, every short text over ByteVals, a
\* block of zero bytes, mixed bytes and the check text
CrcPool ==
    {<<b>> : b \in 0..255}
        \cup UNION {BytesOfLen(n) : n \in 0..MaxCrcLen}
        \cup {Ramp(BlockSize, 0, 0), Ramp(BlockSize + 1, 50, 71), CheckText}

InitCrc ==
    /\ \E D \in CrcPool : fwlist = <<D>>
    /\ result = <<>>
    /\ call = Call("none", NoId)
    /\ ret = "none"
    /\ now = 0
    /\ firmwares = EmptyDict
    /\ files = EmptyDict
    /\ metadata_file = NoSidecar
    /\ Idle

Crc32 ==
    /\ call.op = "none"
    /\ result' = <<_calculate_crc32_stm32(fwlist[1])>>
    /\ call' = Call("crc32", NoId)
    /\ UNCHANGED <<firmwares, files, metadata_file, now, ret, fwlist, pc, loc>>

NextCrc == Crc32

SpecCrc == InitCrc /\ [][NextCrc]_vars

\* the polynomial 0xEDB88320 of the reflected CRC-32
Polynomial == <<60856, 33568>>

\* the register after k more bit steps: shift right by one bit, and XOR the
\* polynomial in when the bit shifted out is 1
RECURSIVE BitSteps(_, _)
BitSteps(crc, k) ==
    IF k = 0 THEN crc
    ELSE IF crc[2] % 2 = 1 THEN BitSteps(XorWord(ShiftRight(crc, 2), Polynomial), k - 1)
    ELSE BitSteps(ShiftRight(crc, 2), k - 1)

\* the bit-by-bit registers: regs[n + 1] is the register after the first n
\* bytes of data
RECURSIVE BitwiseLoop(_, _)
BitwiseLoop(regs, data) ==
    LET n == Len(regs)
        crc == regs[n] IN
    IF n > Len(data) THEN crc
    ELSE BitwiseLoop(Append(regs, BitSteps(<<crc[1], Xor(crc[2], data[n])>>, 8)), data)

\* the standard CRC-32 computed bit by bit
BitwiseCrc32(data) == XorWord(BitwiseLoop(<<Mask32>>, data), Mask32)

\* C19: the checksum is the reflected CRC-32 (polynomial 0xEDB88320,
\* register from 0xFFFFFFFF, final XOR 0xFFFFFFFF) computed bit by bit,
\* fits in 32 bits, is 0 for the empty text and 0xCBF43926 for "123456789".
C19_Crc32Standard ==
    call.op = "crc32" =>
        /\ result[1] = BitwiseCrc32(fwlist[1])
        /\ result[1][1] \in 0..65535
        /\ result[1][2] \in 0..65535
        /\ fwlist[1] = <<>> => result[1] = <<0, 0>>
        /\ fwlist[1] = CheckText => result[1] = <<52212, 14630>>

\* C19 witness: the checksum of "123456789" has been computed as 0xCBF43926
C19_Witness ==
    /\ call.op = "crc32"
    /\ fwlist[1] = CheckText
    /\ result[1] = <<52212, 14630>>

(***************************************************************************)
(* _aes_encrypt_stm32_format on bytes: the image of the AES-128 path, a    *)
(* header of packed fields and the CBC ciphertext.                         *)
(***************************************************************************)
\* struct.pack('<I', v) with the bytes in the order of '>I'
pack_I_big_endian(v) ==
    <<v \div 16777216, (v \div 65536) % 256, (v \div 256) % 256, v % 256>>

\* struct.pack('<I', v) for 0 <= v < 2^31
pack_I(v) ==
    <<v % 256, (v \div 256) % 256, (v \div 65536) % 256, v \div 16777216>>

\* struct.pack('<I', crc) for a checksum word
pack_I_word(w) == <<w[2] % 256, w[2] \div 256, w[1] % 256, w[1] \div 256>>

\* struct.pack('<HHHH', major, minor, patch, build) for components in 0..65535
pack_HHHH(ver) ==
    <<ver[1] % 256, ver[1] \div 256, ver[2] % 256, ver[2] \div 256,
      ver[3] % 256, ver[3] \div 256, ver[4] % 256, ver[4] \div 256>>

\* hashlib.md5 (RFC 1321) on 32-bit words <<high, low>>
\* a & b on non-negative integers
RECURSIVE And(_, _)
And(a, b) ==
    IF a = 0 \/ b = 0 THEN 0
    ELSE 2 * And(a \div 2, b \div 2) + ((a % 2) * (b % 2))

AndWord(a, b) == <<And(a[1], b[1]), And(a[2], b[2])>>
OrWord(a, b) == <<a[1] + b[1] - And(a[1], b[1]), a[2] + b[2] - And(a[2], b[2])>>
NotWord(a) == <<65535 - a[1], 65535 - a[2]>>

\* a + b modulo 2^32
AddWord(a, b) == <<(a[1] + b[1] + ((a[2] + b[2]) \div 65536)) % 65536, (a[2] + b[2]) % 65536>>

\* w rotated left by s bits, 0 <= s < 32
RotateLeft(w, s) ==
    LET v == IF s >= 16 THEN <<w[2], w[1]>> ELSE w
        k == s % 16
        up == 2 ^ k
        down == 2 ^ (16 - k) IN
    <<((v[1] * up) % 65536) + (v[2] \div down), ((v[2] * up) % 65536) + (v[1] \div down)>>

\* floor(2^32 * abs(sin(i))) for i in 1..64
SineTable == <<
    <<55146, 42104>>, <<59591, 46934>>, <<9248, 28891>>, <<49597, 52974>>,
    <<62844, 4015>>, <<18311, 50730>>, <<43056, 17939>>, <<64838, 38145>>,
    <<27008, 39128>>, <<35652, 63407>>, <<65535, 23473>>, <<35164, 55230>>,
    <<27536, 4386>>, <<64920, 29075>>, <<42617, 17294>>, <<18868, 2081>>,
    <<63006, 9570>>, <<49216, 45888>>, <<9822, 23121>>, <<59830, 51114>>,
    <<54831, 4189>>, <<580, 5203>>, <<55457, 59009>>, <<59347, 64456>>,
    <<8673, 52710>>, <<49975, 2006>>, <<62677, 3463>>, <<17754, 5357>>,
    <<43491, 59653>>, <<64751, 41976>>, <<26479, 729>>, <<36138, 19594>>,
    <<65530, 14658>>, <<34673, 63105>>, <<28061, 24866>>, <<64997, 14348>>,
    <<42174, 59972>>, <<19422, 53161>>, <<63163, 19296>>, <<48831, 48240>>,
    <<10395, 32454>>, <<60065, 10234>>, <<54511, 12421>>, <<1160, 7429>>,
    <<55764, 53305>>, <<59099, 39397>>, <<8098, 31992>>, <<50348, 22117>>,
    <<62505, 8772>>, <<17194, 65431>>, <<43924, 9127>>, <<64659, 41017>>,
    <<25947, 22979>>, <<36620, 52370>>, <<65519, 62589>>, <<34180, 24017>>,
    <<28584, 32335>>, <<65068, 59104>>, <<41729, 17172>>, <<19976, 4513>>,
    <<63315, 32386>>, <<48442, 62005>>, <<10967, 53947>>, <<60294, 54161>>>>

\* the rotation of each step
ShiftTable == <<
    7, 12, 17, 22, 7, 12, 17, 22, 7, 12, 17, 22, 7, 12, 17, 22,
    5, 9, 14, 20, 5, 9, 14, 20, 5, 9, 14, 20, 5, 9, 14, 20,
    4, 11, 16, 23, 4, 11, 16, 23, 4, 11, 16, 23, 4, 11, 16, 23,
    6, 10, 15, 21, 6, 10, 15, 21, 6, 10, 15, 21, 6, 10, 15, 21>>

\* the message padded to whole blocks of 64 bytes: 0x80, zero bytes, and
\* the length in bits in 8 bytes, low byte first
Md5Pad(message) ==
    LET n == Len(message)
        zeros == (55 - n) % 64
        bits == 8 * n IN
    message \o <<128>> \o TupleOf([i \in 1..zeros |-> 0], zeros)
        \o <<bits % 256, (bits \div 256) % 256, (bits \div 65536) % 256, bits \div 16777216,
             0, 0, 0, 0>>

\* word g (from 0) of the block that starts after byte `base`, little-endian
Md5Word(padded, base, g) ==
    LET at == base + 4 * g IN
    <<padded[at + 3] + 256 * padded[at + 4], padded[at + 1] + 256 * padded[at + 2]>>

\* one step of a block on the registers <<A, B, C, D>>, i from 0
Md5Step(regs, padded, base, i) ==
    LET A == regs[1]
        B == regs[2]
        C == regs[3]
        D == regs[4]
        F == CASE i < 16 -> OrWord(AndWord(B, C), AndWord(NotWord(B), D))
               [] i >= 16 /\ i < 32 -> OrWord(AndWord(D, B), AndWord(NotWord(D), C))
               [] i >= 32 /\ i < 48 -> XorWord(XorWord(B, C), D)
               [] i >= 48 -> XorWord(C, OrWord(B, NotWord(D)))
        g == CASE i < 16 -> i
               [] i >= 16 /\ i < 32 -> (5 * i + 1) % 16
               [] i >= 32 /\ i < 48 -> (3 * i + 5) % 16
               [] i >= 48 -> (7 * i) % 16
        sum == AddWord(AddWord(AddWord(A, F), SineTable[i + 1]), Md5Word(padded, base, g)) IN
    <<D, AddWord(B, RotateLeft(sum, ShiftTable[i + 1])), B, C>>

\* the steps of one block: steps[i + 1] holds the registers after i steps
RECURSIVE Md5Steps(_, _, _)
Md5Steps(steps, padded, base) ==
    LET i == Len(steps) - 1 IN
    IF i = 64 THEN steps[65]
    ELSE Md5Steps(Append(steps, Md5Step(steps[i + 1], padded, base, i)), padded, base)

\* the blocks: states[b + 1] holds the registers after b blocks
RECURSIVE Md5Blocks(_, _)
Md5Blocks(states, padded) ==
    LET b == Len(states) - 1
        h == states[b + 1]
        r == Md5Steps(<<h>>, padded, 64 * b) IN
    IF 64 * b >= Len(padded) THEN h
    ELSE Md5Blocks(Append(states, <<AddWord(h[1], r[1]), AddWord(h[2], r[2]),
                                    AddWord(h[3], r[3]), AddWord(h[4], r[4])>>),
                   padded)

\* hashlib.md5(key).digest(): the four registers, low byte first
md5_digest(key) ==
    LET h == Md5Blocks(<<<<<<26437, 8961>>, <<61389, 43913>>, <<39098, 56574>>,
                           <<4146, 21622>>>>>>, Md5Pad(key)) IN
    pack_I_word(h[1]) \o pack_I_word(h[2]) \o pack_I_word(h[3]) \o pack_I_word(h[4])

Magic == 1095062321           \* 0x41455331, "AES1"
HeaderVersion == 1

\* the header of _aes_encrypt_stm32_format, ver the parsed version
stm32_header(data, encrypted_data, key, iv, ver) ==
    pack_I(Magic)
        \o pack_I(HeaderVersion)
        \o pack_I(Len(data))
        \o pack_I(Len(encrypted_data))
        \o pack_I_word(_calculate_crc32_stm32(data))
        \o pack_I_word(_calculate_crc32_stm32(encrypted_data))
        \o iv
        \o md5_digest(key)
        \o pack_HHHH(ver)

\* CryptoManager._aes_encrypt_stm32_format on bytes, iv the 16 bytes of
\* os.urandom(16): [ok, complete_firmware, metadata]; ok = FALSE when
\* Cipher rejects the key or struct.pack a version component
stm32_format_bytes(data, key, iv, firmware_version) ==
    LET ver == _parse_firmware_version(firmware_version)
        encrypted_data == CbcEncrypt(<<>>, Pkcs7Pad(data), key, iv)
        header == stm32_header(data, encrypted_data, key, iv, ver) IN
    IF Len(key) \notin {16, 24, 32} \/ ~PackOk(ver)
    THEN [ok |-> FALSE, complete_firmware |-> <<>>, metadata |-> EmptyDict]
    ELSE [ok |-> TRUE,
          complete_firmware |-> header \o encrypted_data,
          metadata |-> [algorithm |-> ALG_AES128,
                        key_length |-> Len(key),
                        iv |-> hex(iv),
                        block_size |-> 16,
                        firmware_size |-> Len(data),
                        encrypted_size |-> Len(encrypted_data),
                        header_size |-> Len(header)]]

\* versions of the records whose files are encrypted
VShort == <<"v", "1", ".", "2">>
V300 == <<"3", "0", "0", ".", "0", ".", "2", "5", "7", ".", "6", "5", "5", "3", "5">>
HeaderVersions == {NoVersion, VShort, V300, VBig, VAuto}

\* keys of 16 bytes
HeaderKeyPool == {K \in AesKeyPool : Len(K) = 16}

HeaderPlainPool == {Ramp(n, f, 0) : n \in PlainLens, f \in {0, BlockSize}}

InitHeader ==
    /\ \E P \in HeaderPlainPool, K \in HeaderKeyPool, v \in HeaderVersions : fwlist = <<P, K, v>>
    /\ result = <<>>
    /\ call = Call("none", NoId)
    /\ ret = "none"
    /\ now = 0
    /\ firmwares = EmptyDict
    /\ files = EmptyDict
    /\ metadata_file = NoSidecar
    /\ Idle

Stm32Encrypt ==
    /\ call.op = "none"
    /\ \E iv \in IvPool :
        LET r == stm32_format_bytes(fwlist[1], fwlist[2], iv, fwlist[3]) IN
        /\ result' = <<r.complete_firmware, r.metadata>>
        /\ ret' = IF r.ok THEN "ok" ELSE "error"
    /\ call' = Call("aes_encrypt_stm32_format", NoId)
    /\ UNCHANGED <<firmwares, files, metadata_file, now, fwlist, pc, loc>>

NextHeader == Stm32Encrypt

SpecHeader == InitHeader /\ [][NextHeader]_vars

\* the little-endian 32-bit field at offset off of out, as <<high, low>>
FieldAt(out, off) == <<out[off + 3] + 256 * out[off + 4], out[off + 1] + 256 * out[off + 2]>>

\* C20: the image that the AES-128 path returns for plaintext P is a header
\* of 64 bytes followed by the ciphertext of P; the header holds magic
\* 0x41455331, header_version 1, firmware_size = len(P), encrypted_size =
\* len(ciphertext) = len(image) - 64, a positive multiple of 16 above
\* len(P) - 1, the checksums of P and of the ciphertext, and MD5(key); the
\* metadata reports the same sizes and header_size 64.
C20_HeaderLayout ==
    call.op = "aes_encrypt_stm32_format" /\ ret = "ok" =>
        LET P == fwlist[1]
            key == fwlist[2]
            out == result[1]
            meta == result[2]
            ciphertext == SubSeq(out, 65, Len(out))
            iv == SubSeq(out, 25, 40)
            encrypted_size == FieldAt(out, 12) IN
        /\ Len(out) >= 64
        /\ aes_decrypt_bytes(ciphertext, key, iv) = [ok |-> TRUE, data |-> P]
        /\ FieldAt(out, 0) = <<16709, 21297>>
        /\ FieldAt(out, 4) = <<0, 1>>
        /\ FieldAt(out, 8) = <<0, Len(P)>>
        /\ encrypted_size = <<0, Len(ciphertext)>>
        /\ encrypted_size[2] = Len(out) - 64
        /\ encrypted_size[2] > 0
        /\ encrypted_size[2] % 16 = 0
        /\ encrypted_size[2] > Len(P) - 1
        /\ FieldAt(out, 16) = _calculate_crc32_stm32(P)
        /\ FieldAt(out, 20) = _calculate_crc32_stm32(ciphertext)
        /\ SubSeq(out, 41, 56) = md5_digest(key)
        /\ meta.firmware_size = Len(P)
        /\ meta.encrypted_size = encrypted_size[2]
        /\ meta.header_size = 64

\* C20 witness: a plaintext of a whole block has been encrypted to an image
\* of the header and two blocks
C20_Witness ==
    /\ call.op = "aes_encrypt_stm32_format"
    /\ ret = "ok"
    /\ Len(fwlist[1]) = BlockSize
    /\ Len(result[1]) = 64 + 2 * BlockSize
    /\ result[2].encrypted_size = 2 * BlockSize

(***************************************************************************)
(* CryptoManager.encrypt_firmware and decrypt_firmware on bytes, with the  *)
(* key supplied by the caller.                                             *)
(***************************************************************************)
\* CryptoManager.encrypt_firmware with key given, iv the bytes of
\* os.urandom(16): [ok, out, metadata]; ok = FALSE when it raises
encrypt_firmware_bytes(data, algorithm, key, iv, firmware_version) ==
    CASE algorithm = ALG_NONE ->
            [ok |-> TRUE, out |-> data, metadata |-> [algorithm |-> ALG_NONE]]
      [] algorithm = ALG_XOR ->
            [ok |-> TRUE, out |-> xor_bytes(data, key),
             metadata |-> [algorithm |-> ALG_XOR, key_length |-> Len(key)]]
      [] algorithm = ALG_AES128 ->
            LET r == stm32_format_bytes(data, key, iv, firmware_version) IN
            [ok |-> r.ok, out |-> r.complete_firmware, metadata |-> r.metadata]
      [] algorithm = ALG_AES256 ->
            IF Len(key) \notin {16, 24, 32}
            THEN [ok |-> FALSE, out |-> <<>>, metadata |-> EmptyDict]
            ELSE [ok |-> TRUE, out |-> aes_encrypt_bytes(data, key, iv).encrypted_data,
                  metadata |-> [algorithm |-> ALG_AES256, key_length |-> Len(key),
                                iv |-> hex(iv), block_size |-> 16]]

\* CryptoManager.decrypt_firmware: [ok, data]; ok = FALSE when it raises
decrypt_firmware_bytes(encrypted_data, algorithm, key, metadata) ==
    CASE algorithm = ALG_NONE -> [ok |-> TRUE, data |-> encrypted_data]
      [] algorithm = ALG_XOR -> [ok |-> TRUE, data |-> xor_decrypt_bytes(encrypted_data, key)]
      [] algorithm \in {ALG_AES128, ALG_AES256} ->
            IF "iv" \notin DOMAIN metadata \/ ~fromhex(metadata["iv"]).ok
                  \/ Len(key) \notin {16, 24, 32} \/ Len(fromhex(metadata["iv"]).bytes) # 16
            THEN [ok |-> FALSE, data |-> <<>>]
            ELSE aes_decrypt_bytes(encrypted_data, key, fromhex(metadata["iv"]).bytes)

\* <<algorithm, key>>: every algorithm with keys of its length
CipherArgs ==
    {<<ALG_NONE, <<>>>>, <<ALG_XOR, <<90>>>>, <<ALG_XOR, Ramp(32, 1, 1)>>,
     <<ALG_AES128, Ramp(16, 0, 1)>>, <<ALG_AES128, Ramp(16, 255, 0)>>,
     <<ALG_AES256, Ramp(32, 96, 13)>>}

InitCipher ==
    /\ \E D \in HeaderPlainPool, x \in CipherArgs : fwlist = <<D, x[1], x[2]>>
    /\ result = <<>>
    /\ call = Call("none", NoId)
    /\ ret = "none"
    /\ now = 0
    /\ firmwares = EmptyDict
    /\ files = EmptyDict
    /\ metadata_file = NoSidecar
    /\ Idle

CipherEncrypt ==
    /\ call.op = "none"
    /\ \E iv \in IvPool :
        LET r == encrypt_firmware_bytes(fwlist[1], fwlist[2], fwlist[3], iv, NoVersion) IN
        /\ result' = <<r.out, r.metadata>>
        /\ ret' = IF r.ok THEN "ok" ELSE "raise"
    /\ call' = Call("encrypt_firmware", NoId)
    /\ UNCHANGED <<firmwares, files, metadata_file, now, fwlist, pc, loc>>

\* decrypt_firmware on exactly what encrypt_firmware returned
CipherDecrypt ==
    /\ call.op = "encrypt_firmware"
    /\ ret = "ok"
    /\ LET r == decrypt_firmware_bytes(result[1], fwlist[2], fwlist[3], result[2]) IN
        /\ result' = <<result[1], result[2], r.data>>
        /\ ret' = IF r.ok THEN "ok" ELSE "raise"
    /\ call' = Call("decrypt_firmware", NoId)
    /\ UNCHANGED <<firmwares, files, metadata_file, now, fwlist, pc, loc>>

NextCipher == CipherEncrypt \/ CipherDecrypt

SpecCipher == InitCipher /\ [][NextCipher]_vars

\* C26: for every algorithm, decrypt_firmware applied to the output and the
\* metadata of encrypt_firmware, with the same algorithm and key, returns
\* the data that was encrypted.
C26_CipherRoundTrip ==
    call.op = "decrypt_firmware" => ret = "ok" /\ result[3] = fwlist[1]

(***************************************************************************)
(* The crypto service on hex strings (CryptoService.encrypt_data,          *)
(* CryptoService.decrypt_data).                                            *)
(***************************************************************************)
\* the methods class CryptoManager defines
CryptoManagerMethods ==
    {"generate_key", "encrypt_firmware", "decrypt_firmware", "_xor_encrypt",
     "_xor_decrypt", "_aes_encrypt", "_aes_decrypt", "_aes_encrypt_stm32_format",
     "calculate_checksum", "verify_checksum", "_derive_aes_key_stm32_compatible",
     "_parse_firmware_version", "_calculate_crc32_stm32", "get_supported_algorithms"}

\* self.crypto_manager.<name>: the attribute lookup
HasMethod(name) == name \in CryptoManagerMethods

Failure(error) == [success |-> FALSE, error |-> error]

\* CryptoService.encrypt_data.  The call of line 126 is
\* self.crypto_manager.encrypt(...): the lookup raises AttributeError, which
\* the handler of line 139 turns into a failure result
encrypt_data(data_hex, algorithm, password, key_hex) ==
    IF algorithm \notin EncryptionType THEN Failure("unsupported algorithm")
    ELSE IF ~fromhex(data_hex).ok THEN Failure("data format")
    ELSE IF Len(key_hex) > 0 /\ ~fromhex(key_hex).ok THEN Failure("key format")
    ELSE IF ~HasMethod("encrypt") THEN Failure("AttributeError: encrypt")
    ELSE Failure("unreachable")

\* CryptoService.decrypt_data.  The call of line 224 is
\* self.crypto_manager.decrypt(...)
decrypt_data(encrypted_hex, algorithm, password, key_hex) ==
    IF algorithm \notin EncryptionType THEN Failure("unsupported algorithm")
    ELSE IF ~fromhex(encrypted_hex).ok THEN Failure("data format")
    ELSE IF Len(key_hex) > 0 /\ ~fromhex(key_hex).ok THEN Failure("key format")
    ELSE IF ~HasMethod("decrypt") THEN Failure("AttributeError: decrypt")
    ELSE Failure("unreachable")

K32Hex == Rep("b", 64)

\* data_hex, algorithm and key_hex of the requests
DataHexPool == {<<>>, <<"0", "7">>, <<"0", "a", "0", "b">>, BadHex}
AlgorithmNames == EncryptionType \cup {ALG_DES}
KeyHexPool == {<<>>, K16Hex, K32Hex, BadHex}

\* the length in bytes of the keys an algorithm takes
KeyLengths(algorithm) ==
    CASE algorithm = ALG_AES128 -> {16}
      [] algorithm = ALG_AES256 -> {32}
      [] OTHER -> {16, 32}

\* fwlist holds the request <<data_hex, algorithm, key_hex>>
InitService ==
    /\ firmwares = EmptyDict
    /\ files = EmptyDict
    /\ metadata_file = NoSidecar
    /\ now = 0
    /\ call = NoCall
    /\ ret = "none"
    /\ Idle
    /\ fwlist \in DataHexPool \X AlgorithmNames \X KeyHexPool
    /\ result = <<>>

ServiceEncrypt ==
    /\ call.op = "none"
    /\ call' = Call("encrypt_data", NoId)
    /\ result' = encrypt_data(fwlist[1], fwlist[2], NoPassword, fwlist[3])
    /\ ret' = IF result'.success THEN "success" ELSE "failure"
    /\ UNCHANGED <<firmwares, files, metadata_file, now, fwlist, pc, loc>>

\* decrypt_data on what encrypt_data returned, with the algorithm and the key
\* of the request
ServiceDecrypt ==
    /\ call.op = "encrypt_data"
    /\ call' = Call("decrypt_data", NoId)
    /\ result' = decrypt_data(IF result.success THEN result.data.encrypted_data
                              ELSE fwlist[1],
                              fwlist[2], NoPassword, fwlist[3])
    /\ ret' = IF result'.success THEN "success" ELSE "failure"
    /\ UNCHANGED <<firmwares, files, metadata_file, now, fwlist, pc, loc>>

NextService == ServiceEncrypt \/ ServiceDecrypt

SpecService == InitService /\ [][NextService]_vars

\* the request is a supported algorithm name, well-formed hex data and a hex
\* key of the algorithm's length
WellFormed(request) ==
    /\ request[2] \in EncryptionType
    /\ fromhex(request[1]).ok
    /\ fromhex(request[3]).ok
    /\ Len(fromhex(request[3]).bytes) \in KeyLengths(request[2])

\* C30: on a supported algorithm name, well-formed hex data and a hex key of
\* the algorithm's length encrypt_data returns success, and decrypt_data on
\* its result with the same algorithm and key returns success with the
\* original data.
C30_ServiceReachesCipher ==
    /\ call.op = "encrypt_data" /\ WellFormed(fwlist) => ret = "success"
    /\ call.op = "decrypt_data" /\ WellFormed(fwlist) =>
            /\ ret = "success"
            /\ fromhex(result.data.decrypted_data).bytes = fromhex(fwlist[1]).bytes

(***************************************************************************)
(* The catalog under concurrent callers.  The handlers take no lock; a    *)
(* thread runs a handler statement by statement, and the statements that  *)
(* touch the map, a file or the sidecar are the steps.  A thread holds    *)
(* the FirmwareInfo object it fetched: once another thread deletes or     *)
(* replaces the entry, that object is an orphan the map no longer shows.  *)
(***************************************************************************)
ConcEncArgs == {<<ALG_XOR, Pw, NoKey>>, <<ALG_AES128, NoPassword, K16>>}
ConcFiles == {FA}
ConcIds == {FirmwareId(0, p) : p \in ConcFiles}

Loc(op, id, args, fw, orphan, content, enc, snap) ==
    [op |-> op, id |-> id, args |-> args, fw |-> fw, orphan |-> orphan,
     content |-> content, enc |-> enc, snap |-> snap]

NoEnc == [ok |-> FALSE, out |-> Plain(<<>>), meta |-> EmptyDict]
NoArgs == <<ALG_NONE, NoPassword, NoKey>>

InitConc ==
    /\ firmwares = EmptyDict
    /\ files = EmptyDict
    /\ metadata_file = NoSidecar
    /\ now = 0
    /\ call = NoCall
    /\ ret = "none"
    /\ Idle
    /\ NoList

Return(t, op, id, value) ==
    /\ pc' = [pc EXCEPT ![t] = "idle"]
    /\ loc' = [loc EXCEPT ![t] = NoLoc]
    /\ call' = Call(op, id)
    /\ ret' = value

Goto(t, label, l) ==
    /\ pc' = [pc EXCEPT ![t] = label]
    /\ loc' = [loc EXCEPT ![t] = l]
    /\ UNCHANGED <<call, ret>>

\* the object thread t holds: the map's entry, or its orphan
Held(t) == IF loc[t].orphan THEN loc[t].fw ELSE firmwares[loc[t].id]

\* threads other than t that hold the object of id lose it to the map
Orphaned(t, id, l) ==
    [u \in Threads |->
        IF u = t THEN l
        ELSE IF pc[u] \in {"e_read", "e_check", "e_write", "e_mark", "e_size"}
                /\ loc[u].id = id /\ ~loc[u].orphan
             THEN [loc[u] EXCEPT !.orphan = TRUE, !.fw = firmwares[id]]
             ELSE loc[u]]

\* add_firmware, lines 231-259: the caller has stored the file; read it and
\* build the record
c_add_begin(t, path, bytes, original_filename, version) ==
    /\ pc[t] = "idle"
    /\ Cardinality(DOMAIN firmwares) < MaxRecords
    /\ path \notin DOMAIN files
    /\ files' = Put(files, path, Plain(bytes))
    /\ Goto(t, "a_insert",
            Loc("add", FirmwareId(now, path), NoArgs,
                NewFirmware(path, Plain(bytes), original_filename, version,
                            DefaultDevice, now),
                FALSE, Plain(bytes), NoEnc, EmptyDict))
    /\ UNCHANGED <<firmwares, metadata_file, now, fwlist, result>>

\* add_firmware, line 262: self.firmwares[firmware_id] = firmware
c_add_insert(t) ==
    /\ pc[t] = "a_insert"
    /\ firmwares' = Put(firmwares, loc[t].id, loc[t].fw)
    /\ pc' = [pc EXCEPT ![t] = "save"]
    /\ loc' = IF loc[t].id \in DOMAIN firmwares THEN Orphaned(t, loc[t].id, loc[t]) ELSE loc
    /\ UNCHANGED <<files, metadata_file, now, call, ret, fwlist, result>>

\* _save_metadata, line 92: data = {fw_id: fw.to_dict() ...}
c_save_snapshot(t) ==
    /\ pc[t] = "save"
    /\ Goto(t, "save_write", [loc[t] EXCEPT !.snap = _save_metadata(firmwares)])
    /\ UNCHANGED <<firmwares, files, metadata_file, now, fwlist, result>>

\* _save_metadata, lines 93-94: the sidecar is rewritten; the handler returns
c_save_write(t) ==
    /\ pc[t] = "save_write"
    /\ metadata_file' = loc[t].snap
    /\ Return(t, loc[t].op, loc[t].id, IF loc[t].op = "add" THEN "FirmwareInfo" ELSE "True")
    /\ UNCHANGED <<firmwares, files, now, fwlist, result>>

\* remove_firmware, lines 275-279
c_remove_begin(t, firmware_id) ==
    /\ pc[t] = "idle"
    /\ IF firmware_id \notin DOMAIN firmwares
       THEN Return(t, "remove", firmware_id, "False")
       ELSE Goto(t, "r_unlink",
                 Loc("remove", firmware_id, NoArgs, firmwares[firmware_id], FALSE,
                     Plain(<<>>), NoEnc, EmptyDict))
    /\ UNCHANGED <<firmwares, files, metadata_file, now, fwlist, result>>

\* remove_firmware, lines 282-283
c_remove_unlink(t) ==
    /\ pc[t] = "r_unlink"
    /\ files' = Drop(files, loc[t].fw.filename)
    /\ Goto(t, "r_del", loc[t])
    /\ UNCHANGED <<firmwares, metadata_file, now, fwlist, result>>

\* remove_firmware, line 286: del self.firmwares[firmware_id]; a KeyError
\* is caught and the handler returns False
c_remove_del(t) ==
    /\ pc[t] = "r_del"
    /\ IF loc[t].id \in DOMAIN firmwares
       THEN /\ firmwares' = Drop(firmwares, loc[t].id)
            /\ pc' = [pc EXCEPT ![t] = "save"]
            /\ loc' = Orphaned(t, loc[t].id, loc[t])
            /\ UNCHANGED <<call, ret>>
       ELSE /\ Return(t, "remove", loc[t].id, "False")
            /\ UNCHANGED firmwares
    /\ UNCHANGED <<files, metadata_file, now, fwlist, result>>

\* encrypt_firmware, lines 363-365
c_encrypt_begin(t, firmware_id, args) ==
    /\ pc[t] = "idle"
    /\ IF firmware_id \notin DOMAIN firmwares
       THEN Return(t, "encrypt", firmware_id, "False")
       ELSE Goto(t, "e_read",
                 Loc("encrypt", firmware_id, args, firmwares[firmware_id], FALSE,
                     Plain(<<>>), NoEnc, EmptyDict))
    /\ UNCHANGED <<firmwares, files, metadata_file, now, fwlist, result>>

\* encrypt_firmware, lines 368-370: read_firmware_content looks the id up again
c_encrypt_read(t) ==
    /\ pc[t] = "e_read"
    /\ IF Readable(firmwares, files, loc[t].id)
       THEN Goto(t, "e_check",
                 [loc[t] EXCEPT !.content = files[firmwares[loc[t].id].filename]])
       ELSE Return(t, "encrypt", loc[t].id, "False")
    /\ UNCHANGED <<firmwares, files, metadata_file, now, fwlist, result>>

\* encrypt_firmware, lines 373-381: the is_encrypted test, then the cipher
c_encrypt_check(t, iv) ==
    /\ pc[t] = "e_check"
    /\ Held(t).is_encrypted \/ Len(loc[t].content.layers) <= MaxLayers
    /\ IF Held(t).is_encrypted
       THEN Return(t, "encrypt", loc[t].id, "True")
       ELSE LET enc == crypto_encrypt_firmware(loc[t].content, loc[t].args[1],
                                               loc[t].args[3], loc[t].args[2],
                                               Held(t).version, iv, Rnd) IN
            IF enc.ok THEN Goto(t, "e_write", [loc[t] EXCEPT !.enc = enc])
            ELSE Return(t, "encrypt", loc[t].id, "False")
    /\ UNCHANGED <<firmwares, files, metadata_file, now, fwlist, result>>

\* encrypt_firmware, lines 384-386: get_firmware_path looks the id up again;
\* open(None, 'wb') raises and the handler returns False
c_encrypt_write(t) ==
    /\ pc[t] = "e_write"
    /\ IF loc[t].id \in DOMAIN firmwares
       THEN /\ files' = Put(files, firmwares[loc[t].id].filename, loc[t].enc.out)
            /\ Goto(t, "e_mark", loc[t])
       ELSE /\ Return(t, "encrypt", loc[t].id, "False")
            /\ UNCHANGED files
    /\ UNCHANGED <<firmwares, metadata_file, now, fwlist, result>>

\* the held object after an assignment to it
Assign(t, fw) ==
    IF loc[t].orphan
    THEN /\ loc' = [loc EXCEPT ![t].fw = fw]
         /\ UNCHANGED firmwares
    ELSE /\ firmwares' = Put(firmwares, loc[t].id, fw)
         /\ UNCHANGED loc

\* encrypt_firmware, lines 389-406: is_encrypted, algorithm, metadata
c_encrypt_mark(t) ==
    /\ pc[t] = "e_mark"
    /\ LET done == Encrypted(Held(t), loc[t].args[1], loc[t].args[2], loc[t].args[3],
                             loc[t].enc) IN
       Assign(t, [done EXCEPT !.size = Held(t).size, !.checksum = Held(t).checksum])
    /\ pc' = [pc EXCEPT ![t] = "e_size"]
    /\ UNCHANGED <<files, metadata_file, now, call, ret, fwlist, result>>

\* encrypt_firmware, lines 408-409: size and checksum
c_encrypt_size(t) ==
    /\ pc[t] = "e_size"
    /\ Assign(t, [Held(t) EXCEPT !.size = ContentLen(loc[t].enc.out),
                                 !.checksum = calculate_checksum(loc[t].enc.out)])
    /\ pc' = [pc EXCEPT ![t] = "save"]
    /\ UNCHANGED <<files, metadata_file, now, call, ret, fwlist, result>>

NextConc ==
    \E t \in Threads :
        \/ \E path \in ConcFiles, bytes \in PlainData, o \in OrigNames :
                c_add_begin(t, path, bytes, o, NoVersion)
        \/ c_add_insert(t)
        \/ c_save_snapshot(t)
        \/ c_save_write(t)
        \/ \E id \in ConcIds : c_remove_begin(t, id)
        \/ c_remove_unlink(t)
        \/ c_remove_del(t)
        \/ \E id \in ConcIds, x \in ConcEncArgs : c_encrypt_begin(t, id, x)
        \/ c_encrypt_read(t)
        \/ \E iv \in IVs : c_encrypt_check(t, iv)
        \/ c_encrypt_write(t)
        \/ c_encrypt_mark(t)
        \/ c_encrypt_size(t)

SpecConc == InitConc /\ [][NextConc]_vars

AllReturned == \A t \in Threads : pc[t] = "idle"

\* C5: once every call has returned, the sidecar holds exactly the records
\* of the in-memory map.
C5_NoLostUpdate ==
    AllReturned => _load_metadata(metadata_file, files, now) = firmwares

\* C6: once every call has returned, the file of an encrypted record is one
\* encryption of the plaintext, and the record's algorithm, metadata, size
\* and checksum describe that encryption.
C6_EncryptedOnce ==
    AllReturned =>
        \A id \in DOMAIN firmwares :
            (firmwares[id].is_encrypted /\ firmwares[id].filename \in DOMAIN files) =>
                LET fw == firmwares[id]
                    c == files[fw.filename] IN
                /\ Len(c.layers) = 1
                /\ c.layers[1].alg = fw.encryption_algorithm
                /\ fw.encryption_metadata.algorithm = fw.encryption_algorithm
                /\ fw.encryption_metadata.key_length = c.layers[1].key.len
                /\ fw.size = ContentLen(c)
                /\ fw.checksum = calculate_checksum(c)

====
